---- MODULE Spec2Model ----
(***************************************************************************)
(* TenderSight-AI: the tender discovery and scoring pipeline.              *)
(*                                                                         *)
(*   src/cloud_main.py  parse_user_profile, get_sample_tenders,            *)
(*                      parse_tender_document, check_eligibility,          *)
(*                      generate_application_summary, main_tender_agent    *)
(*   src/main.py        scrape_tender_portals (the live Tender Source)     *)
(*                                                                         *)
(* Python strings are sequences of one-character strings; a character      *)
(* outside printable ASCII is written by its code point ("U+2026").        *)
(* Python values that may be of several types (None, str, int, bool,       *)
(* list, dict) are tagged records [t |-> ..., v |-> ...].                  *)
(*                                                                         *)
(* Four specifications:                                                    *)
(*   Spec         main_tender_agent of cloud_main.py, one step per call    *)
(*                it makes, the LLM service answering nondeterministically *)
(*   SpecExtract  parse_user_profile over bounded input texts              *)
(*   SpecSample   get_sample_tenders over keyword strings and locations    *)
(*   SpecLive     scrape_tender_portals of main.py, one step per browser   *)
(*                operation, each of which may fail                        *)
(***************************************************************************)
EXTENDS Integers, Sequences, FiniteSets, TLC

VARIABLES
    pc,             \* position in main_tender_agent / parse_user_profile runs
    query,          \* the input text
    user_profile,   \* dict returned by parse_user_profile (NoValue before)
    profile_again,  \* dict returned by a second parse_user_profile call
    keywords,       \* the search-keyword string of main_tender_agent
    location,       \* the location main_tender_agent hands the Tender Source
    tenders,        \* list returned by the Tender Source
    i,              \* loop index of enumerate(tenders[:3])
    parsed_tender,  \* value returned by parse_tender_document
    eligibility,    \* value returned by check_eligibility
    judged,         \* line 292's verdict on each candidate scored so far
    app_summary,    \* value returned by generate_application_summary
    results,        \* the accumulated report blocks
    output,         \* the value main_tender_agent returned (NoValue before)
    exc,            \* the exception that left main_tender_agent, if any
    calls,          \* number of calls made to each collaborator
    llm_last,       \* the LLM service's answer to the latest llm.invoke
    shown,          \* what the search button handler of cloud_app.py displayed
    lpc,            \* position in scrape_tender_portals
    lkeywords,      \* scrape_tender_portals: argument keywords
    tender_data,    \* scrape_tender_portals: the list being built
    portal,         \* scrape_tender_portals: index of the portal in hand
    sel,            \* scrape_tender_portals: index of the selector in hand
    elems,          \* scrape_tender_portals: page elements still to be read
    browser_open,   \* scrape_tender_portals: a browser was launched
    failed,         \* scrape_tender_portals: the portals a step of which failed
    lresult,        \* scrape_tender_portals: the list returned (NoValue before)
    lexc            \* scrape_tender_portals: the exception that left it, if any

vars == <<pc, query, user_profile, profile_again, keywords, location, tenders, i,
          parsed_tender, eligibility, judged, app_summary, results, output, exc,
          calls, llm_last, shown, lpc, lkeywords, tender_data, portal, sel,
          elems, browser_open, failed, lresult, lexc>>

-----------------------------------------------------------------------------
(* Bounds of the model *)

\* input texts of SpecExtract are built from at most MaxSegs segments
MaxSegs == 2

-----------------------------------------------------------------------------
(* Python values *)

None == [t |-> "none"]
PStr(s) == [t |-> "str", v |-> s]
PInt(n) == [t |-> "int", v |-> n]
PBool(b) == [t |-> "bool", v |-> b]
PList(l) == [t |-> "list", v |-> l]
PDict(d) == [t |-> "dict", v |-> d]

\* a variable that holds nothing yet
NoValue == [t |-> "unset"]

\* dict.get(key, default): the default is used only when the key is absent
DictGet(d, key, default) == IF key \in DOMAIN d THEN d[key] ELSE default

\* Python truth value
Truthy(x) ==
    CASE x.t = "none" -> FALSE
      [] x.t = "bool" -> x.v
      [] x.t = "int" -> x.v # 0
      [] x.t = "str" -> Len(x.v) > 0
      [] x.t = "list" -> Len(x.v) > 0
      [] x.t = "dict" -> DOMAIN x.v # {}
      [] OTHER -> FALSE

-----------------------------------------------------------------------------
(* Characters and strings *)

Lowers == <<"a","b","c","d","e","f","g","h","i","j","k","l","m","n","o","p","q","r","s","t","u","v","w","x","y","z">>
Uppers == <<"A","B","C","D","E","F","G","H","I","J","K","L","M","N","O","P","Q","R","S","T","U","V","W","X","Y","Z">>
Digits == <<"0","1","2","3","4","5","6","7","8","9">>

Range(s) == {s[k] : k \in 1..Len(s)}
IndexOf(s, c) == CHOOSE k \in 1..Len(s) : s[k] = c

LowerSet == Range(Lowers)
UpperSet == Range(Uppers)
DigitSet == Range(Digits)
IsLower(c) == c \in LowerSet
IsUpper(c) == c \in UpperSet
IsDigit(c) == c \in DigitSet
\* \w of the re module
IsWordChar(c) == IsLower(c) \/ IsUpper(c) \/ IsDigit(c) \/ c = "_"
\* \s of the re module, str.strip()
IsSpace(c) == c \in {" ", "\t", "\n", "\r"}

ToLower(c) == IF IsUpper(c) THEN Lowers[IndexOf(Uppers, c)] ELSE c
ToUpper(c) == IF IsLower(c) THEN Uppers[IndexOf(Lowers, c)] ELSE c

\* str.lower()
StrLower(s) == [k \in 1..Len(s) |-> ToLower(s[k])]

\* str.title(): a cased character is upper-cased after an uncased one,
\* lower-cased after a cased one
StrTitle(s) ==
    [k \in 1..Len(s) |->
        LET prevCased == k > 1 /\ (IsLower(s[k-1]) \/ IsUpper(s[k-1]))
        IN  IF prevCased THEN ToLower(s[k]) ELSE ToUpper(s[k])]

\* s[:n]
Take(s, n) == SubSeq(s, 1, IF n < Len(s) THEN n ELSE Len(s))

Min(S) == CHOOSE x \in S : \A y \in S : x <= y
Max(S) == CHOOSE x \in S : \A y \in S : x >= y

\* pat occurs in s at position p
OccursAt(pat, s, p) ==
    /\ p >= 1
    /\ p + Len(pat) - 1 <= Len(s)
    /\ \A k \in 1..Len(pat) : s[p + k - 1] = pat[k]

\* pat in s
Contains(pat, s) == \E p \in 1..(Len(s) - Len(pat) + 1) : OccursAt(pat, s, p)

\* str.strip()
StrStrip(s) ==
    IF \A k \in 1..Len(s) : IsSpace(s[k]) THEN <<>>
    ELSE LET first == CHOOSE k \in 1..Len(s) :
                          ~IsSpace(s[k]) /\ \A j \in 1..(k - 1) : IsSpace(s[j])
             last == CHOOSE k \in 1..Len(s) :
                          ~IsSpace(s[k]) /\ \A j \in (k + 1)..Len(s) : IsSpace(s[j])
         IN  SubSeq(s, first, last)

\* sep.join(list)
RECURSIVE StrJoin(_, _)
StrJoin(sep, list) ==
    IF Len(list) = 0 THEN <<>>
    ELSE IF Len(list) = 1 THEN list[1]
    ELSE list[1] \o sep \o StrJoin(sep, Tail(list))

\* ''.join(list)
RECURSIVE StrConcat(_)
StrConcat(list) == IF Len(list) = 0 THEN <<>> ELSE list[1] \o StrConcat(Tail(list))

\* str(n) of an int
RECURSIVE NatStr(_)
NatStr(n) == IF n < 10 THEN <<Digits[n + 1]>> ELSE NatStr(n \div 10) \o <<Digits[(n % 10) + 1]>>
IntStr(n) == IF n < 0 THEN <<"-">> \o NatStr(0 - n) ELSE NatStr(n)

\* repr(s) of a str: single quotes, double quotes when the text holds a
\* single quote and no double quote; backslash, the quote and control
\* characters are escaped
ReprChar(c, quote) ==
    CASE c = "\\" -> <<"\\", "\\">>
      [] c = quote -> <<"\\", quote>>
      [] c = "\n" -> <<"\\", "n">>
      [] c = "\t" -> <<"\\", "t">>
      [] c = "\r" -> <<"\\", "r">>
      [] OTHER -> <<c>>
StrRepr(s) ==
    LET quote == IF "'" \in Range(s) /\ "\"" \notin Range(s) THEN "\"" ELSE "'"
    IN  <<quote>> \o StrConcat([k \in 1..Len(s) |-> ReprChar(s[k], quote)]) \o <<quote>>

\* repr(x) of a value that is no dict
RECURSIVE PyRepr(_)
PyRepr(x) ==
    CASE x.t = "none" -> <<"N","o","n","e">>
      [] x.t = "bool" -> IF x.v THEN <<"T","r","u","e">> ELSE <<"F","a","l","s","e">>
      [] x.t = "int" -> IntStr(x.v)
      [] x.t = "str" -> StrRepr(x.v)
      [] x.t = "list" -> <<"[">> \o StrJoin(<<","," ">>, [k \in 1..Len(x.v) |-> PyRepr(x.v[k])]) \o <<"]">>
\* what an f-string field {x} prints
PyStr(x) == IF x.t = "str" THEN x.v ELSE PyRepr(x)
\* the characters of a dict key (keys are TLA+ strings here)
KeyChars(key) ==
    CASE key = "title" -> <<"t","i","t","l","e">>
      [] key = "deadline" -> <<"d","e","a","d","l","i","n","e">>
      [] key = "link" -> <<"l","i","n","k">>
      [] key = "source" -> <<"s","o","u","r","c","e">>
      [] key = "keywords_matched" -> <<"k","e","y","w","o","r","d","s","_","m","a","t","c","h","e","d">>
      [] key = "description" -> <<"d","e","s","c","r","i","p","t","i","o","n">>
      [] key = "error" -> <<"e","r","r","o","r">>
      [] key = "note" -> <<"n","o","t","e">>
\* str(d) of a dict, keys being the list of its keys in insertion order
DictRepr(d, keys) ==
    <<"{">> \o StrJoin(<<","," ">>, [k \in 1..Len(keys) |->
                StrRepr(KeyChars(keys[k])) \o <<":"," ">> \o PyRepr(d[keys[k]])]) \o <<"}">>

-----------------------------------------------------------------------------
(* parse_user_profile: src/cloud_main.py 39-116 (src/main.py 72-152 is the
   same code) *)

company_patterns == << <<"c","o","m","p","a","n","y">>, <<"s","t","a","r","t","u","p">>, <<"o","r","g","a","n","i","z","a","t","i","o","n">>, <<"f","i","r","m">> >>
location_patterns == << <<"l","o","c","a","t","i","o","n">>, <<"b","a","s","e","d"," ","i","n">>, <<"f","r","o","m">>, <<"c","i","t","y">> >>
budget_patterns == << <<"b","u","d","g","e","t">>, <<"f","u","n","d","i","n","g">>, <<"i","n","v","e","s","t","m","e","n","t">> >>
budget_units == << <<"l","a","k","h">>, <<"c","r","o","r","e">>, <<"m","i","l","l","i","o","n">>, <<"k">> >>
industry_keywords ==
    << <<"t","e","c","h">>, <<"h","e","a","l","t","h","c","a","r","e">>, <<"f","i","n","t","e","c","h">>, <<"a","g","r","i","c","u","l","t","u","r","e">>, <<"m","a","n","u","f","a","c","t","u","r","i","n","g">>,
       <<"e","d","u","c","a","t","i","o","n">>, <<"r","e","t","a","i","l">>, <<"l","o","g","i","s","t","i","c","s">>, <<"r","e","n","e","w","a","b","l","e"," ","e","n","e","r","g","y">>, <<"a","i">>,
       <<"b","l","o","c","k","c","h","a","i","n">> >>
stage_keywords ==
    << <<"i","n","n","o","v","a","t","i","o","n">>, <<"r","e","s","e","a","r","c","h">>, <<"d","e","v","e","l","o","p","m","e","n","t">>, <<"p","r","o","t","o","t","y","p","e">>, <<"p","i","l","o","t">>,
       <<"s","c","a","l","e">>, <<"g","r","o","w","t","h">> >>

\* the character classes of the patterns: [:\s], [^\n,], [0-9,] and \s
InClass(c, class) ==
    CASE class = "sep" -> c = ":" \/ IsSpace(c)
      [] class = "value" -> c # "\n" /\ c # ","
      [] class = "amount" -> IsDigit(c) \/ c = ","
      [] class = "space" -> IsSpace(c)

\* length of the longest run of characters of a class that starts at q
RunLen(s, q, class) ==
    LET stops == {k \in q..Len(s) : ~InClass(s[k], class)}
    IN  IF q > Len(s) THEN 0
        ELSE IF stops = {} THEN Len(s) - q + 1
        ELSE Min(stops) - q

\* the literal label matched at p, re.IGNORECASE
LabelAt(label, s, p) ==
    /\ p >= 1
    /\ p + Len(label) - 1 <= Len(s)
    /\ \A k \in 1..Len(label) : ToLower(s[p + k - 1]) = label[k]

\* re.search(label + r"[:\s]+([^\n,]+)", s, re.IGNORECASE) tried at p:
\* [:\s]+ is greedy and gives characters back until one value character
\* follows it; 0 when there is no match at p, else where group 1 starts
ValueStartAt(label, s, p) ==
    LET q == p + Len(label)
        L == RunLen(s, q, "sep")
        ks == {k \in 1..L : q + k <= Len(s) /\ InClass(s[q + k], "value")}
    IN  IF LabelAt(label, s, p) /\ ks # {} THEN q + Max(ks) ELSE 0

\* match.group(1).strip() of the leftmost match, None without a match
SearchValue(label, s) ==
    LET ps == {p \in 1..Len(s) : ValueStartAt(label, s, p) # 0}
    IN  IF ps = {} THEN None
        ELSE LET g == ValueStartAt(label, s, Min(ps))
             IN  PStr(StrStrip(SubSeq(s, g, g + RunLen(s, g, "value") - 1)))

\* the optional tail (?:\s*(?:lakh|crore|million|k))? tried at e: its length
UnitLenAt(s, e) ==
    LET w == RunLen(s, e, "space")
        \* \s* is greedy and gives characters back; the alternatives are
        \* tried in order for each length of \s*
        fits == {<<k, u>> \in (0..w) \X (1..Len(budget_units)) :
                    LabelAt(budget_units[u], s, e + k)}
    IN  IF fits = {} THEN 0
        ELSE LET k == Max({f[1] : f \in fits})
                 u == Min({f[2] : f \in {g \in fits : g[1] = k}})
             IN  k + Len(budget_units[u])

\* re.search(label + r"[:\s]+([0-9,]+(?:\s*(?:lakh|crore|million|k))?)", ...)
\* tried at p: 0, or where group 1 starts (an amount character is no
\* separator, so [:\s]+ gives nothing back)
AmountStartAt(label, s, p) ==
    LET q == p + Len(label)
        L == RunLen(s, q, "sep")
    IN  IF LabelAt(label, s, p) /\ L >= 1 /\ RunLen(s, q + L, "amount") >= 1
        THEN q + L ELSE 0

SearchAmount(label, s) ==
    LET ps == {p \in 1..Len(s) : AmountStartAt(label, s, p) # 0}
    IN  IF ps = {} THEN None
        ELSE LET g == AmountStartAt(label, s, Min(ps))
                 e == g + RunLen(s, g, "amount")
             IN  PStr(StrStrip(SubSeq(s, g, e + UnitLenAt(s, e) - 1)))

\* for pattern in patterns: ... if match: ...; break
RECURSIVE FirstValue(_, _)
FirstValue(patterns, s) ==
    IF Len(patterns) = 0 THEN None
    ELSE IF SearchValue(patterns[1], s) # None THEN SearchValue(patterns[1], s)
    ELSE FirstValue(Tail(patterns), s)

RECURSIVE FirstAmount(_, _)
FirstAmount(patterns, s) ==
    IF Len(patterns) = 0 THEN None
    ELSE IF SearchAmount(patterns[1], s) # None THEN SearchAmount(patterns[1], s)
    ELSE FirstAmount(Tail(patterns), s)

\* a slip at lines 72-74: the scan stops at the first keyword found
found_industries_FirstOnly(s) ==
    LET Found(keyword) == Contains(StrLower(keyword), StrLower(s))
    IN  Take(SelectSeq(industry_keywords, Found), 1)

\* found_industries: the vocabulary keywords that are substrings of the
\* lower-cased text, in vocabulary order
found_industries(s) ==
    LET Found(keyword) == Contains(StrLower(keyword), StrLower(s))
    IN  SelectSeq(industry_keywords, Found)

\* a slip at line 109: the pattern without its \b anchors
StageAt_NoBoundary(s, p) ==
    LET ws == {w \in 1..Len(stage_keywords) : LabelAt(stage_keywords[w], s, p)}
    IN  IF ws = {} THEN 0 ELSE Min(ws)

\* the stage keyword that \b(?:innovation|...|growth)\b matches at p, as an
\* index of stage_keywords; 0 when none does
StageAt(s, p) ==
    LET ws == {w \in 1..Len(stage_keywords) :
                 /\ LabelAt(stage_keywords[w], s, p)
                 /\ (p = 1 \/ ~IsWordChar(s[p - 1]))
                 /\ LET e == p + Len(stage_keywords[w])
                    IN  e > Len(s) \/ ~IsWordChar(s[e])}
    IN  IF ws = {} THEN 0 ELSE Min(ws)

\* [kw.lower() for kw in re.findall(...)]: the matches from p on, left to
\* right, not overlapping
RECURSIVE additional_keywords(_, _)
additional_keywords(s, p) ==
    IF p > Len(s) THEN <<>>
    ELSE IF StageAt(s, p) # 0
         THEN LET w == stage_keywords[StageAt(s, p)]
              IN  <<StrLower(SubSeq(s, p, p + Len(w) - 1))>> \o additional_keywords(s, p + Len(w))
         ELSE additional_keywords(s, p + 1)

\* the keyword list before line 114: found industries, then stage keywords
KeywordList(s) == found_industries(s) \o additional_keywords(s, 1)

\* a slip at line 114: the list kept as it is
ListOfSet_Kept(l) == {l}

\* list(set(l)): the distinct elements in the order the set iterates them; the
\* order follows the strings' hashes, which differ from process to process,
\* so every order is possible
ListOfSet(l) ==
    LET S == Range(l)
    IN  {o \in [1..Cardinality(S) -> S] : \A a, b \in 1..Cardinality(S) : a # b => o[a] # o[b]}

\* the dicts parse_user_profile may return for user_input
parse_user_profile(user_input) ==
    LET company == FirstValue(company_patterns, user_input)
        found == found_industries(user_input)
        place == FirstValue(location_patterns, user_input)
        budget == FirstAmount(budget_patterns, user_input)
    IN  {[company_name |-> company,
          industry |-> IF Len(found) > 0 THEN PStr(found[1]) ELSE None,
          location |-> place,
          budget_range |-> budget,
          company_size |-> None,
          keywords |-> PList([k \in 1..Len(o) |-> PStr(o[k])]),
          preferences |-> PDict([key \in {} |-> None])] : o \in ListOfSet(KeywordList(user_input))}
-----------------------------------------------------------------------------
(* SpecExtract: parse_user_profile on bounded input texts *)

\* the pieces input texts are built from
Segments ==
    << <<"h","e","l","l","o">>, <<"t","e","c","h">>, <<"f","i","n","t","e","c","h">>, <<"M","u","m","b","a","i">>, <<"r","e","s","e","a","r","c","h">>, <<"R","e","s","e","a","r","c","h">>,
       <<"c","o","m","p","a","n","y",":"," ","A","c","m","e",",">>, <<"b","a","s","e","d"," ","i","n">>, <<"b","u","d","g","e","t",":"," ","2","0"," ","l","a","k","h">>, <<"s","t","a","r","t","u","p">>,
       <<"f","r","o","m"," "," ">>, <<"p","i","l","o","t","s">> >>

\* the texts of up to n segments, joined by single spaces
RECURSIVE TextsOf(_)
TextsOf(n) ==
    IF n = 0 THEN {<<>>}
    ELSE LET shorter == TextsOf(n - 1)
         IN  shorter \cup {Segments[k] : k \in 1..Len(Segments)}
                     \cup {t \o <<" ">> \o Segments[k] :
                              t \in shorter \ {<<>>}, k \in 1..Len(Segments)}
Texts == TextsOf(MaxSegs)

-----------------------------------------------------------------------------
(* get_sample_tenders: src/cloud_main.py 118-172 *)

\* the keys of a sample tender, in insertion order
TenderKeys == <<"title", "deadline", "link", "source", "keywords_matched", "description">>

Tender(title, link, source, matched, description) ==
    [title |-> PStr(title),
     deadline |-> PStr(<<"C","h","e","c","k"," ","P","o","r","t","a","l"," ","f","o","r"," ","D","e","t","a","i","l","s">>),
     link |-> PStr(link),
     source |-> PStr(source),
     keywords_matched |-> PStr(matched),
     description |-> PStr(description)]

\* lines 132-139
GemTender(kw) ==
    Tender(StrTitle(kw) \o <<" ","S","o","l","u","t","i","o","n","s"," ","f","o","r"," ","G","o","v","e","r","n","m","e","n","t"," ","S","e","c","t","o","r">>,
           <<"h","t","t","p","s",":","/","/","g","e","m",".","g","o","v",".","i","n">>, <<"G","e","M">>, kw,
           <<"A"," ","t","e","n","d","e","r"," ","f","o","r"," ">> \o kw \o <<" ","s","o","l","u","t","i","o","n","s"," ","a","c","r","o","s","s"," ","g","o","v","e","r","n","m","e","n","t"," ","d","e","p","a","r","t","m","e","n","t","s",".">>)
\* lines 142-149
EprocureTender(kw) ==
    Tender(<<"R","e","q","u","e","s","t"," ","f","o","r"," ","P","r","o","p","o","s","a","l","s",":"," ">> \o StrTitle(kw) \o <<" ","I","m","p","l","e","m","e","n","t","a","t","i","o","n">>,
           <<"h","t","t","p","s",":","/","/","e","p","r","o","c","u","r","e",".","g","o","v",".","i","n">>, <<"e","P","r","o","c","u","r","e">>, kw,
           <<"G","o","v","e","r","n","m","e","n","t"," ","i","n","i","t","i","a","t","i","v","e"," ","s","e","e","k","i","n","g"," ">> \o kw \o <<" ","s","o","l","u","t","i","o","n","s"," ","f","o","r"," ","e","n","h","a","n","c","i","n","g"," ","p","u","b","l","i","c"," ","s","e","r","v","i","c","e","s",".">>)
\* lines 152-159
StartupIndiaTender(kw) ==
    Tender(<<"I","n","n","o","v","a","t","i","o","n"," ","G","r","a","n","t"," ","f","o","r"," ">> \o StrTitle(kw) \o <<" ","S","t","a","r","t","u","p","s">>,
           <<"h","t","t","p","s",":","/","/","w","w","w",".","s","t","a","r","t","u","p","i","n","d","i","a",".","g","o","v",".","i","n">>, <<"S","t","a","r","t","u","p"," ","I","n","d","i","a">>, kw,
           <<"F","u","n","d","i","n","g"," ","o","p","p","o","r","t","u","n","i","t","y"," ","f","o","r"," ","s","t","a","r","t","u","p","s"," ","w","o","r","k","i","n","g"," ","i","n"," ">> \o kw \o <<" ","s","e","c","t","o","r",".">>)
\* lines 163-170
LocalTender(kw, loc) ==
    Tender(<<"L","o","c","a","l"," ">> \o StrTitle(kw) \o <<" ","I","n","i","t","i","a","t","i","v","e"," ","i","n"," ">> \o PyStr(loc),
           <<"h","t","t","p","s",":","/","/","g","e","m",".","g","o","v",".","i","n">>, <<"G","e","M">>, kw \o <<" ">> \o PyStr(loc),
           <<"L","o","c","a","l"," ","g","o","v","e","r","n","m","e","n","t"," ","t","e","n","d","e","r"," ","f","o","r"," ">> \o kw \o <<" ","s","o","l","u","t","i","o","n","s"," ","i","n"," ">> \o PyStr(loc) \o <<" ","r","e","g","i","o","n",".">>)

\* a Tender Source that has nothing for the keywords
get_sample_tenders_Empty(kw, loc) == <<>>

\* a slip at line 162: "if location is not None"
get_sample_tenders_NotNone(kw, loc) ==
    <<GemTender(kw), EprocureTender(kw), StartupIndiaTender(kw)>>
        \o (IF loc # None THEN <<LocalTender(kw, loc)>> ELSE <<>>)

\* kw is the keyword string, loc the location: a str or None
get_sample_tenders(kw, loc) ==
    <<GemTender(kw), EprocureTender(kw), StartupIndiaTender(kw)>>
        \o (IF Truthy(loc) THEN <<LocalTender(kw, loc)>> ELSE <<>>)

-----------------------------------------------------------------------------
(* The LLM service: llm.invoke(prompt) raises, or returns a response whose
   content json.loads rejects (kind "text") or parses to a value (kind
   "json") *)

LLMError == [kind |-> "error"]
LLMText(content) == [kind |-> "text", content |-> content]
LLMJson(value) == [kind |-> "json", value |-> value]

\* the JSON object {}
EmptyDict == [key \in {} |-> None]

\* an exception leaving a function
Raised(type, where) == [t |-> "raise", type |-> type, where |-> where]

RECURSIVE Repeat(_, _)
Repeat(s, n) == IF n = 0 THEN <<>> ELSE s \o Repeat(s, n - 1)

\* answers to the extraction prompt of parse_tender_document: the call fails,
\* the text is no JSON, a JSON object that lacks fields (no title), a JSON
\* value that is no object
PartialDocument ==
    PDict([description |-> PStr(<<"R","e","p","a","i","r"," ","o","f"," ","r","o","a","d","s">>),
           deadline |-> PStr(<<"2","0","2","5","-","0","1","-","3","1">>),
           budget_range |-> None,
           application_requirements |-> PStr(<<"C","o","m","p","a","n","y"," ","p","r","o","f","i","l","e">>)])
ParseResponses ==
    {LLMError, LLMText(<<"I"," ","c","a","n","n","o","t"," ","r","e","a","d"," ","t","h","i","s"," ","d","o","c","u","m","e","n","t",".">>),
     LLMJson(PartialDocument), LLMJson(PList(<<>>))}

\* answers to the eligibility prompt of check_eligibility: the call fails, the
\* text is no JSON, the four fields, an object without fields, an object
\* whose reasons are null, a JSON value that is no object
EligibleAnswer ==
    PDict([eligible |-> PBool(TRUE), match_score |-> PInt(90),
           reasons |-> PList(<<PStr(<<"S","e","c","t","o","r"," ","m","a","t","c","h">>), PStr(<<"L","o","c","a","l"," ","f","i","r","m">>)>>),
           missing_requirements |-> PList(<<>>)])
NotEligibleAnswer ==
    PDict([eligible |-> PBool(FALSE), match_score |-> PInt(20),
           reasons |-> PList(<<PStr(<<"T","u","r","n","o","v","e","r"," ","t","o","o"," ","l","o","w">>)>>),
           missing_requirements |-> PList(<<PStr(<<"A","u","d","i","t","e","d"," ","a","c","c","o","u","n","t","s">>)>>)])
NullReasonsAnswer ==
    PDict([eligible |-> PBool(TRUE), match_score |-> PInt(60), reasons |-> None])
EligResponses ==
    {LLMError, LLMText(<<"Y","e","s",","," ","t","h","e"," ","c","o","m","p","a","n","y"," ","l","o","o","k","s"," ","e","l","i","g","i","b","l","e",".">>),
     LLMJson(EligibleAnswer), LLMJson(NotEligibleAnswer), LLMJson(PDict(EmptyDict)),
     LLMJson(NullReasonsAnswer), LLMJson(PList(<<>>))}

\* answers to the summary prompt of generate_application_summary: a text of
\* more than 300 characters with white space around it
SummaryText == <<" "," ","\n">> \o Repeat(<<"W","e"," ","d","e","l","i","v","e","r"," ","o","n"," ","t","i","m","e","."," ">>, 16) \o <<" ","\n">>
SummaryResponses == {LLMError, LLMText(SummaryText)}

-----------------------------------------------------------------------------
(* parse_tender_document: src/cloud_main.py 174-209 *)

DescriptionLimit == 200

\* a slip at line 202: tender_content[200:]
Excerpt_Tail(tender_content) ==
    SubSeq(tender_content, DescriptionLimit + 1, Len(tender_content)) \o <<".",".",".">>

\* line 202
Excerpt(tender_content) == Take(tender_content, DescriptionLimit) \o <<".",".",".">>

\* lines 200-209
DegradedDocument(tender_content) ==
    PDict([title |-> PStr(<<"D","o","c","u","m","e","n","t"," ","P","a","r","s","e"," ","E","r","r","o","r">>),
           description |-> PStr(Excerpt(tender_content)),
           deadline |-> None,
           budget_range |-> None,
           eligibility_criteria |-> PStr(<<"R","e","v","i","e","w"," ","d","o","c","u","m","e","n","t"," ","m","a","n","u","a","l","l","y">>),
           application_requirements |-> PStr(<<"R","e","v","i","e","w"," ","d","o","c","u","m","e","n","t"," ","m","a","n","u","a","l","l","y">>),
           contact_details |-> None,
           tender_id |-> None])

\* r is the LLM service's answer to llm.invoke(prompt)
parse_tender_document(tender_content, r) ==
    IF r.kind = "json" THEN r.value ELSE DegradedDocument(tender_content)

-----------------------------------------------------------------------------
(* check_eligibility: src/cloud_main.py 211-247 *)

\* lines 242-247
DefaultEligibility ==
    PDict([eligible |-> PBool(TRUE), match_score |-> PInt(75),
           reasons |-> PList(<<PStr(<<"G","e","n","e","r","a","l"," ","e","l","i","g","i","b","i","l","i","t","y"," ","a","s","s","u","m","e","d">>)>>),
           missing_requirements |-> PList(<<PStr(<<"M","a","n","u","a","l"," ","r","e","v","i","e","w"," ","r","e","q","u","i","r","e","d">>)>>)])

\* the prompt (lines 213-234) is built before the try: tender_data.get
\* raises AttributeError for a document that is no dict
PromptRaises(doc) == doc.t # "dict"

check_eligibility(doc, profile, r) ==
    IF PromptRaises(doc) THEN Raised("AttributeError", "check_eligibility")
    ELSE IF r.kind = "json" THEN r.value
    ELSE DefaultEligibility

-----------------------------------------------------------------------------
(* generate_application_summary: src/cloud_main.py 249-269 *)

\* line 269
FallbackSummary(tender_details, company_profile) ==
    <<"A","p","p","l","i","c","a","t","i","o","n"," ","s","u","m","m","a","r","y"," ","f","o","r"," ">>
        \o PyStr(DictGet(company_profile, "company_name", PStr(<<"C","o","m","p","a","n","y">>)))
        \o <<" ","a","p","p","l","y","i","n","g"," ","t","o"," ">>
        \o PyStr(DictGet(tender_details.v, "title", PStr(<<"t","e","n","d","e","r">>)))
        \o <<"."," ","M","a","n","u","a","l"," ","c","o","m","p","l","e","t","i","o","n"," ","r","e","q","u","i","r","e","d",".">>

generate_application_summary(tender_details, company_profile, r) ==
    IF PromptRaises(tender_details)
    THEN Raised("AttributeError", "generate_application_summary")
    ELSE IF r.kind = "error" THEN PStr(FallbackSummary(tender_details, company_profile))
    ELSE PStr(StrStrip(r.content))

-----------------------------------------------------------------------------
(* main_tender_agent: src/cloud_main.py 271-327 *)

NeedMoreDetails ==
    <<"P","l","e","a","s","e"," ","p","r","o","v","i","d","e"," ","m","o","r","e"," ","d","e","t","a","i","l","s"," ","a","b","o","u","t"," ","y","o","u","r"," ","c","o","m","p","a","n","y",","," ","i","n","d","u","s","t","r","y",","," ","a","n","d"," ","l","o","c","a","t","i","o","n"," ","t","o"," ","f","i","n","d"," ","r","e","l","e","v","a","n","t"," ","t","e","n","d","e","r","s",".">>
NoTendersFound(kw) ==
    <<"N","o"," ","t","e","n","d","e","r","s"," ","f","o","u","n","d"," ","f","o","r"," ","k","e","y","w","o","r","d","s",":"," ">> \o kw \o <<"."," ","T","r","y"," ","d","i","f","f","e","r","e","n","t"," ","s","e","a","r","c","h"," ","t","e","r","m","s",".">>
NoEligibleTenders == <<"N","o"," ","e","l","i","g","i","b","l","e"," ","t","e","n","d","e","r","s"," ","f","o","u","n","d"," ","m","a","t","c","h","i","n","g"," ","y","o","u","r"," ","p","r","o","f","i","l","e",".">>

\* tenders[:3]
ProcessLimit == 3
\* user_profile["keywords"][:2]
KeywordLimit == 2
\* app_summary[:300]
SummaryLimit == 300

\* ', '.join(x): x must be an iterable of str
JoinRaises(x) ==
    \/ x.t \in {"none", "int", "bool"}
    \/ x.t = "list" /\ \E k \in 1..Len(x.v) : x.v[k].t # "str"
JoinReasons(x) ==
    IF x.t = "str" THEN StrJoin(<<","," ">>, [k \in 1..Len(x.v) |-> <<x.v[k]>>])
    ELSE StrJoin(<<","," ">>, [k \in 1..Len(x.v) |-> x.v[k].v])

\* the eligibility line of a block (line 302)
EligibleMark == <<"U+00E2","U+0153","U+2026"," ","E","l","i","g","i","b","l","e">>
NotEligibleMark == <<"U+00E2","U+0152"," ","N","o","t"," ","E","l","i","g","i","b","l","e">>

\* a slip at line 296: the index itself as the label
BlockNumber_ZeroBased(idx) == idx

\* line 296: the number in the label of the candidate at index idx
BlockNumber(idx) == idx + 1

\* a slip at line 306: the whole summary in place of app_summary[:300]
FormatBlock_FullSummary(n, tender, elig, summary) ==
    LET reasons == DictGet(elig, "reasons", PList(<<PStr(<<"R","e","v","i","e","w"," ","r","e","q","u","i","r","e","d">>)>>))
    IN  IF JoinRaises(reasons) THEN Raised("TypeError", "main_tender_agent")
        ELSE PStr(
            <<"\n","T","E","N","D","E","R"," ">> \o IntStr(n) \o <<":"," ">> \o PyStr(tender["title"])
            \o <<"\n","S","O","U","R","C","E",":"," ">> \o PyStr(tender["source"])
            \o <<"\n","L","I","N","K",":"," ">> \o PyStr(tender["link"])
            \o <<"\n","M","A","T","C","H"," ","S","C","O","R","E",":"," ">> \o PyStr(DictGet(elig, "match_score", PStr(<<"N","/","A">>))) \o <<"%">>
            \o <<"\n","D","E","A","D","L","I","N","E",":"," ">> \o PyStr(DictGet(tender, "deadline", PStr(<<"C","h","e","c","k"," ","P","o","r","t","a","l">>)))
            \o <<"\n","\n","E","L","I","G","I","B","I","L","I","T","Y",":"," ">>
            \o (IF Truthy(DictGet(elig, "eligible", None)) THEN EligibleMark ELSE NotEligibleMark)
            \o <<"\n","R","E","A","S","O","N","S",":"," ">> \o JoinReasons(reasons)
            \o <<"\n","\n","A","P","P","L","I","C","A","T","I","O","N"," ","S","U","M","M","A","R","Y",":","\n">> \o summary \o <<".",".",".">>
            \o <<"\n","\n","-","-","-","\n">>)

\* lines 295-309: the block of candidate number n; the value of the
\* f-string, or the TypeError of its join
FormatBlock(n, tender, elig, summary) ==
    LET reasons == DictGet(elig, "reasons", PList(<<PStr(<<"R","e","v","i","e","w"," ","r","e","q","u","i","r","e","d">>)>>))
    IN  IF JoinRaises(reasons) THEN Raised("TypeError", "main_tender_agent")
        ELSE PStr(
            <<"\n","T","E","N","D","E","R"," ">> \o IntStr(n) \o <<":"," ">> \o PyStr(tender["title"])
            \o <<"\n","S","O","U","R","C","E",":"," ">> \o PyStr(tender["source"])
            \o <<"\n","L","I","N","K",":"," ">> \o PyStr(tender["link"])
            \o <<"\n","M","A","T","C","H"," ","S","C","O","R","E",":"," ">> \o PyStr(DictGet(elig, "match_score", PStr(<<"N","/","A">>))) \o <<"%">>
            \o <<"\n","D","E","A","D","L","I","N","E",":"," ">> \o PyStr(DictGet(tender, "deadline", PStr(<<"C","h","e","c","k"," ","P","o","r","t","a","l">>)))
            \o <<"\n","\n","E","L","I","G","I","B","I","L","I","T","Y",":"," ">>
            \o (IF Truthy(DictGet(elig, "eligible", None)) THEN EligibleMark ELSE NotEligibleMark)
            \o <<"\n","R","E","A","S","O","N","S",":"," ">> \o JoinReasons(reasons)
            \o <<"\n","\n","A","P","P","L","I","C","A","T","I","O","N"," ","S","U","M","M","A","R","Y",":","\n">> \o Take(summary, SummaryLimit) \o <<".",".",".">>
            \o <<"\n","\n","-","-","-","\n">>)

ReportHeader(profile) ==
    <<"\n","T","E","N","D","E","R"," ","S","E","A","R","C","H"," ","R","E","S","U","L","T","S"," ","F","O","R",":"," ">>
        \o PyStr(DictGet(profile, "company_name", PStr(<<"Y","o","u","r"," ","C","o","m","p","a","n","y">>)))
        \o <<"\n","I","N","D","U","S","T","R","Y",":"," ">> \o PyStr(DictGet(profile, "industry", PStr(<<"N","/","A">>)))
        \o <<"\n","L","O","C","A","T","I","O","N",":"," ">> \o PyStr(DictGet(profile, "location", PStr(<<"N","/","A">>)))
        \o <<"\n","\n">>
ReportFooter ==
    <<"\n","\n","U+011F","U+0178","U+201C","U+2039"," ","N","E","X","T"," ","S","T","E","P","S",":","\n","1","."," ","V","i","s","i","t"," ","t","h","e"," ","p","o","r","t","a","l"," ","l","i","n","k","s"," ","t","o"," ","g","e","t"," ","c","o","m","p","l","e","t","e"," ","t","e","n","d","e","r"," ","d","o","c","u","m","e","n","t","s","\n","2","."," ","R","e","v","i","e","w"," ","e","l","i","g","i","b","i","l","i","t","y"," ","c","r","i","t","e","r","i","a"," ","c","a","r","e","f","u","l","l","y","\n","3","."," ","P","r","e","p","a","r","e"," ","r","e","q","u","i","r","e","d"," ","d","o","c","u","m","e","n","t","s","\n","4","."," ","S","u","b","m","i","t"," ","b","e","f","o","r","e"," ","d","e","a","d","l","i","n","e","\n">>
\* a slip at lines 315-327: the report ends after the blocks
Report_NoFooter(profile, blocks) == ReportHeader(profile) \o StrConcat(blocks)

\* lines 315-327
Report(profile, blocks) == ReportHeader(profile) \o StrConcat(blocks) \o ReportFooter

\* line 292: the condition that admits a block
Admits(elig) == Truthy(DictGet(elig, "eligible", PBool(TRUE)))

\* a slip at line 288: the loop over tenders in place of tenders[:3]
AfterCandidate_WholeList(n, list) ==
    IF n < Len(list) THEN "enrich" ELSE "finish"

\* where the loop of line 288 goes after the candidate at index n - 1
AfterCandidate(n, list) ==
    IF n < ProcessLimit /\ n < Len(list) THEN "enrich" ELSE "finish"

NoCalls == [source |-> 0, parse |-> 0, check |-> 0, summary |-> 0, llm |-> 0]
Called(what) == [calls EXCEPT ![what] = @ + 1]
CalledLLM(what) == [calls EXCEPT ![what] = @ + 1, !["llm"] = @ + 1]

LiveIdle ==
    /\ lpc = "idle"
    /\ lkeywords = <<>>
    /\ tender_data = <<>>
    /\ portal = 0
    /\ sel = 0
    /\ elems = <<>>
    /\ browser_open = FALSE
    /\ failed = {}
    /\ lresult = NoValue
    /\ lexc = NoValue
live_vars == <<lpc, lkeywords, tender_data, portal, sel, elems, browser_open, failed,
               lresult, lexc>>

AgentIdle ==
    /\ user_profile = NoValue
    /\ profile_again = NoValue
    /\ keywords = <<>>
    /\ location = NoValue
    /\ tenders = <<>>
    /\ i = 0
    /\ parsed_tender = NoValue
    /\ eligibility = NoValue
    /\ judged = <<>>
    /\ app_summary = NoValue
    /\ results = <<>>
    /\ output = NoValue
    /\ exc = NoValue
    /\ calls = NoCalls
    /\ llm_last = NoValue
    /\ shown = NoValue

\* line 278
SearchKeywords(profile) ==
    StrJoin(<<" ">>, [k \in 1..Len(Take(profile.keywords.v, KeywordLimit)) |->
                        profile.keywords.v[k].v])

\* a slip at line 275: "is None" in place of "not"
NoKeywords_IsNone(profile) == DictGet(profile, "keywords", None) = None

\* line 275
NoKeywords(profile) == ~Truthy(DictGet(profile, "keywords", None))

\* lines 273-279
ParseProfile ==
    /\ pc = "start"
    /\ \E p \in parse_user_profile(query) :
        /\ user_profile' = p
        /\ IF NoKeywords(p)
           THEN /\ output' = PStr(NeedMoreDetails)
                /\ pc' = "done"
                /\ UNCHANGED <<keywords, location>>
           ELSE /\ keywords' = SearchKeywords(p)
                /\ location' = DictGet(p, "location", PStr(<<>>))
                /\ pc' = "fetch"
                /\ UNCHANGED output
    /\ UNCHANGED <<query, profile_again, tenders, i, parsed_tender, eligibility,
                   judged, app_summary, results, exc, calls, llm_last>>
    /\ UNCHANGED <<shown, live_vars>>

\* lines 282-287
Fetch ==
    /\ pc = "fetch"
    /\ tenders' = get_sample_tenders(keywords, location)
    /\ calls' = Called("source")
    /\ IF Len(tenders') = 0
       THEN /\ output' = PStr(NoTendersFound(keywords))
            /\ pc' = "done"
            /\ UNCHANGED <<i, results>>
       ELSE /\ i' = 0
            /\ results' = <<>>
            /\ pc' = "enrich"
            /\ UNCHANGED output
    /\ UNCHANGED <<query, user_profile, profile_again, keywords, location,
                   parsed_tender, eligibility, judged, app_summary, exc, llm_last>>
    /\ UNCHANGED <<shown, live_vars>>

\* line 289
Enrich ==
    /\ pc = "enrich"
    /\ \E r \in ParseResponses :
        /\ parsed_tender' = parse_tender_document(DictRepr(tenders[i + 1], TenderKeys), r)
        /\ llm_last' = r
    /\ calls' = CalledLLM("parse")
    /\ pc' = "score"
    /\ UNCHANGED <<query, user_profile, profile_again, keywords, location, tenders, i,
                   eligibility, judged, app_summary, results, output, exc>>
    /\ UNCHANGED <<shown, live_vars>>

\* lines 290-292: check_eligibility raises before it calls the LLM
ScoreRaises ==
    /\ pc = "score"
    /\ PromptRaises(parsed_tender)
    /\ exc' = check_eligibility(parsed_tender, user_profile, LLMError)
    /\ calls' = Called("check")
    /\ pc' = "raised"
    /\ UNCHANGED <<query, user_profile, profile_again, keywords, location, tenders, i,
                   parsed_tender, eligibility, judged, app_summary, results, output,
                   llm_last>>
    /\ UNCHANGED <<shown, live_vars>>

\* lines 290-292: check_eligibility returns, and eligibility.get decides
Score ==
    /\ pc = "score"
    /\ ~PromptRaises(parsed_tender)
    /\ \E r \in EligResponses :
        /\ eligibility' = check_eligibility(parsed_tender, user_profile, r)
        /\ llm_last' = r
    /\ calls' = CalledLLM("check")
    /\ IF eligibility'.t # "dict"
       THEN /\ exc' = Raised("AttributeError", "main_tender_agent")
            /\ pc' = "raised"
            /\ UNCHANGED <<i, judged>>
       ELSE IF Admits(eligibility'.v)
       THEN /\ judged' = Append(judged, TRUE)
            /\ pc' = "summarize"
            /\ UNCHANGED <<i, exc>>
       ELSE /\ judged' = Append(judged, FALSE)
            /\ i' = i + 1
            /\ pc' = AfterCandidate(i + 1, tenders)
            /\ UNCHANGED exc
    /\ UNCHANGED <<query, user_profile, profile_again, keywords, location, tenders,
                   parsed_tender, app_summary, results, output>>
    /\ UNCHANGED <<shown, live_vars>>

\* lines 293-310
Summarize ==
    /\ pc = "summarize"
    /\ \E r \in SummaryResponses :
        /\ app_summary' = generate_application_summary(parsed_tender, user_profile, r)
        /\ llm_last' = r
    /\ calls' = CalledLLM("summary")
    /\ LET block == FormatBlock(BlockNumber(i), tenders[i + 1], eligibility.v, app_summary'.v)
       IN  IF block.t = "raise"
           THEN /\ exc' = block
                /\ pc' = "raised"
                /\ UNCHANGED <<i, results>>
           ELSE /\ results' = Append(results, block.v)
                /\ i' = i + 1
                /\ pc' = AfterCandidate(i + 1, tenders)
                /\ UNCHANGED exc
    /\ UNCHANGED <<query, user_profile, profile_again, keywords, location, tenders,
                   parsed_tender, eligibility, judged, output>>
    /\ UNCHANGED <<shown, live_vars>>

\* lines 312-327
Finish ==
    /\ pc = "finish"
    /\ output' = IF Len(results) = 0 THEN PStr(NoEligibleTenders)
                 ELSE PStr(Report(user_profile, results))
    /\ pc' = "done"
    /\ UNCHANGED <<query, user_profile, profile_again, keywords, location, tenders, i,
                   parsed_tender, eligibility, judged, app_summary, results, exc, calls,
                   llm_last>>
    /\ UNCHANGED <<shown, live_vars>>

-----------------------------------------------------------------------------
(* the search button handler of src/cloud_app.py, lines 82-151 *)

\* a slip at line 101: the split keeps its first segment
split_tenders_KeepFirst(result) ==
    LET at == {p \in 1..Len(result) : result[p] = "T" /\ OccursAt(<<"T","E","N","D","E","R"," ">>, result, p)}
        n == Cardinality(at)
        pos == [j \in 1..n |-> CHOOSE p \in at : Cardinality({q \in at : q < p}) = j - 1]
    IN  [j \in 1..(n + 1) |->
            SubSeq(result, IF j = 1 THEN 1 ELSE pos[j - 1] + 7,
                           IF j <= n THEN pos[j] - 1 ELSE Len(result))]

\* line 101: result.split("TENDER ")[1:], the texts that follow each
\* occurrence of the token
split_tenders(result) ==
    LET at == {p \in 1..Len(result) : result[p] = "T" /\ OccursAt(<<"T","E","N","D","E","R"," ">>, result, p)}
        n == Cardinality(at)
        pos == [j \in 1..n |-> CHOOSE p \in at : Cardinality({q \in at : q < p}) = j - 1]
    IN  [j \in 1..n |->
            SubSeq(result, pos[j] + 7, IF j < n THEN pos[j + 1] - 1 ELSE Len(result))]

\* line 107: tender.split("\n")[0].split(":")[1].strip(), 'Tender' when the
\* first line has no ':'
tender_title(tender) ==
    LET nl == {p \in 1..Len(tender) : tender[p] = "\n"}
        line == IF nl = {} THEN tender ELSE SubSeq(tender, 1, Min(nl) - 1)
        cs == {p \in 1..Len(line) : line[p] = ":"}
    IN  IF cs = {} THEN <<"T","e","n","d","e","r">>
        ELSE LET rest == cs \ {Min(cs)}
             IN  StrStrip(SubSeq(line, Min(cs) + 1,
                                 IF rest = {} THEN Len(line) ELSE Min(rest) - 1))

\* lines 113-116: details.split(label)[1].split("\n")[0].strip(), the
\* default when the label is not in details
field_after(label, details, default) ==
    LET first == label[1]
        at == {p \in 1..Len(details) : details[p] = first /\ OccursAt(label, details, p)}
    IN  IF at = {} THEN default
        ELSE LET from == Min(at) + Len(label)
                 nl == {p \in from..Len(details) : details[p] = "\n"}
             IN  StrStrip(SubSeq(details, from,
                                 IF nl = {} THEN Len(details) ELSE Min(nl) - 1))

\* lines 105-125: what the expander of the segment at index idx shows
expander(idx, tender) ==
    LET tender_details == <<"T","E","N","D","E","R"," ">> \o StrStrip(tender)
    IN  [tender_num |-> idx + 1,
         tender_title |-> tender_title(tender),
         source |-> field_after(<<"S","O","U","R","C","E",":">>, tender_details, <<"N","/","A">>),
         link |-> field_after(<<"L","I","N","K",":">>, tender_details, <<"#">>),
         match_score |-> field_after(<<"M","A","T","C","H"," ","S","C","O","R","E",":">>, tender_details, <<"N","/","A">>),
         deadline |-> field_after(<<"D","E","A","D","L","I","N","E",":">>, tender_details, <<"N","/","A">>),
         eligibility |-> IF \E p \in 1..Len(tender_details) :
                                /\ tender_details[p] = "U+2705"
                                /\ OccursAt(<<"U+2705"," ","E","l","i","g","i","b","l","e">>, tender_details, p)
                         THEN <<"U+2705"," ","E","l","i","g","i","b","l","e">> ELSE <<"U+274C"," ","N","o","t"," ","E","l","i","g","i","b","l","e">>]

\* lines 89-151: the handler displays what main_tender_agent returned, or
\* the error it raised
Render ==
    /\ pc \in {"done", "raised"}
    /\ shown = NoValue
    /\ shown' =
          IF pc = "raised" THEN [t |-> "error"]
          ELSE LET tenders_ == split_tenders(output.v)
               IN  IF Len(tenders_) = 0 THEN [t |-> "warning"]
                   ELSE [t |-> "expanders",
                         v |-> [k \in 1..Len(tenders_) |-> expander(k - 1, tenders_[k])]]
    /\ UNCHANGED <<pc, query, user_profile, profile_again, keywords, location, tenders, i,
                   parsed_tender, eligibility, judged, app_summary, results, output,
                   exc, calls, llm_last>>
    /\ UNCHANGED live_vars

\* the input texts of main_tender_agent
Queries ==
    { <<"W","e"," ","a","r","e"," ","a"," ","t","e","c","h"," ","s","t","a","r","t","u","p"," ","b","a","s","e","d"," ","i","n"," ","M","u","m","b","a","i">>,
      <<"h","e","l","l","o">>,
      <<"W","e"," ","d","o"," ","r","e","s","e","a","r","c","h">> }

Init ==
    /\ pc = "start"
    /\ query \in Queries
    /\ AgentIdle
    /\ LiveIdle

Next ==
    \/ ParseProfile
    \/ Fetch
    \/ Enrich
    \/ ScoreRaises
    \/ Score
    \/ Summarize
    \/ Finish
    \/ Render

Spec == Init /\ [][Next]_vars

-----------------------------------------------------------------------------
(* SpecExtract: parse_user_profile called twice on a text of Texts *)

InitExtract ==
    /\ pc = "extract"
    /\ query \in Texts
    /\ AgentIdle
    /\ LiveIdle

Extract ==
    /\ pc = "extract"
    /\ user_profile' \in parse_user_profile(query)
    /\ pc' = "extract_again"
    /\ UNCHANGED <<query, profile_again, keywords, location, tenders, i, parsed_tender,
                   eligibility, judged, app_summary, results, output, exc, calls,
                   llm_last>>
    /\ UNCHANGED <<shown, live_vars>>

ExtractAgain ==
    /\ pc = "extract_again"
    /\ profile_again' \in parse_user_profile(query)
    /\ pc' = "extracted"
    /\ UNCHANGED <<query, user_profile, keywords, location, tenders, i, parsed_tender,
                   eligibility, judged, app_summary, results, output, exc, calls,
                   llm_last>>
    /\ UNCHANGED <<shown, live_vars>>

NextExtract == Extract \/ ExtractAgain

SpecExtract == InitExtract /\ [][NextExtract]_vars

-----------------------------------------------------------------------------
(* SpecSample: get_sample_tenders on the keyword strings main_tender_agent
   can build and on locations *)

\* one keyword, or two different keywords joined by a space
SampleKeywords ==
    LET all == Range(industry_keywords) \cup Range(stage_keywords)
    IN  all \cup {ab[1] \o <<" ">> \o ab[2] : ab \in {p \in all \X all : p[1] # p[2]}}
\* no location, an empty one, and two names
SampleLocations == {None, PStr(<<>>), PStr(<<"M","u","m","b","a","i">>), PStr(<<"N","e","w"," ","D","e","l","h","i">>)}

InitSample ==
    /\ pc = "sample"
    /\ query = <<>>
    /\ user_profile = NoValue
    /\ profile_again = NoValue
    /\ keywords \in SampleKeywords
    /\ location \in SampleLocations
    /\ tenders = <<>>
    /\ i = 0
    /\ parsed_tender = NoValue
    /\ eligibility = NoValue
    /\ judged = <<>>
    /\ app_summary = NoValue
    /\ results = <<>>
    /\ output = NoValue
    /\ exc = NoValue
    /\ calls = NoCalls
    /\ llm_last = NoValue
    /\ shown = NoValue
    /\ LiveIdle

Sample ==
    /\ pc = "sample"
    /\ tenders' = get_sample_tenders(keywords, location)
    /\ calls' = Called("source")
    /\ pc' = "sampled"
    /\ UNCHANGED <<query, user_profile, profile_again, keywords, location, i,
                   parsed_tender, eligibility, judged, app_summary, results, output,
                   exc, llm_last>>
    /\ UNCHANGED <<shown, live_vars>>

NextSample == Sample

SpecSample == InitSample /\ [][NextSample]_vars

-----------------------------------------------------------------------------
(* scrape_tender_portals: src/main.py 155-333 *)

\* lines 158-162
portals == << <<"h","t","t","p","s",":","/","/","g","e","m",".","g","o","v",".","i","n">>, <<"h","t","t","p","s",":","/","/","e","p","r","o","c","u","r","e",".","g","o","v",".","i","n">>,
              <<"h","t","t","p","s",":","/","/","w","w","w",".","s","t","a","r","t","u","p","i","n","d","i","a",".","g","o","v",".","i","n">> >>

\* portal.split("//")[1]
PortalHost(url) ==
    LET at == {p \in 1..Len(url) : OccursAt(<<"/","/">>, url, p)}
        rest == SubSeq(url, Min(at) + 2, Len(url))
        more == {p \in 1..Len(rest) : OccursAt(<<"/","/">>, rest, p)}
    IN  IF more = {} THEN rest ELSE SubSeq(rest, 1, Min(more) - 1)

\* results[:5] of GeM, rows[:3] of eProcure, results[:3] of Startup India
GemLimit == 5
RowLimit == 3
\* inner_text().strip()[:100]
TitleLimit == 100
\* the search selectors and the result selectors tried on GeM
GemSearchSelectors == 3
GemResultSelectors == 4

\* what a page may hold: a query returns up to MaxElems elements; the
\* elements at odd positions carry a title (a row: two cells), the others do
\* not; the first title is longer than TitleLimit
MaxElems == 6
PageTitle(k) ==
    IF k = 1 THEN <<" "," ">> \o Repeat(<<"S","u","p","p","l","y"," ","o","f"," ","l","a","p","t","o","p","s"," ","a","n","d"," ","p","r","i","n","t","e","r","s"," ">>, 4) \o <<"\n">>
    ELSE <<" ","R","o","a","d"," ","r","e","p","a","i","r"," ","w","o","r","k","s"," ">>
Elements(n) == [k \in 1..n |-> [ok |-> (k % 2 = 1), text |-> PageTitle(k)]]

\* lines 208-216, 229-237, 259-267
ScrapedEntry(text, url, source, kw) ==
    [title |-> PStr(Take(StrStrip(text), TitleLimit)),
     deadline |-> PStr(<<"C","h","e","c","k"," ","P","o","r","t","a","l">>),
     link |-> PStr(url),
     source |-> PStr(source),
     keywords_matched |-> PStr(kw)]
\* lines 239-247
EprocureFallback(url, kw) ==
    [title |-> PStr(<<"T","e","n","d","e","r","s"," ","a","v","a","i","l","a","b","l","e"," ","f","o","r"," ">> \o kw),
     deadline |-> PStr(<<"C","h","e","c","k"," ","P","o","r","t","a","l">>),
     link |-> PStr(url),
     source |-> PStr(<<"e","P","r","o","c","u","r","e">>),
     keywords_matched |-> PStr(kw)]
\* lines 269-277
StartupFallback(url, kw) ==
    [title |-> PStr(<<"S","t","a","r","t","u","p"," ","g","r","a","n","t","s"," ","a","v","a","i","l","a","b","l","e"," ","f","o","r"," ">> \o kw),
     deadline |-> PStr(<<"C","h","e","c","k"," ","P","o","r","t","a","l">>),
     link |-> PStr(url),
     source |-> PStr(<<"S","t","a","r","t","u","p"," ","I","n","d","i","a">>),
     keywords_matched |-> PStr(kw)]
\* lines 282-290; message is str(e)
ErrorEntry(url, message) ==
    [title |-> PStr(<<"E","r","r","o","r"," ","a","c","c","e","s","s","i","n","g"," ">> \o PortalHost(url)),
     deadline |-> PStr(<<"N","/","A">>),
     link |-> PStr(url),
     source |-> PStr(PortalHost(url)),
     error |-> PStr(message)]
\* lines 295-305
SampleEntry(url, kw) ==
    [title |-> PStr(<<"S","a","m","p","l","e"," ","t","e","n","d","e","r"," ","f","o","r"," ">> \o kw \o <<" ","o","n"," ">> \o PortalHost(url)),
     deadline |-> PStr(<<"C","h","e","c","k"," ","P","o","r","t","a","l">>),
     link |-> PStr(url),
     source |-> PStr(PortalHost(url)),
     keywords_matched |-> PStr(kw),
     note |-> PStr(<<"U","s","i","n","g"," ","s","a","m","p","l","e"," ","d","a","t","a"," ","(","b","r","o","w","s","e","r"," ","a","u","t","o","m","a","t","i","o","n"," ","u","n","a","v","a","i","l","a","b","l","e",")">>)]
SampleEntries(kw) == [k \in 1..Len(portals) |-> SampleEntry(portals[k], kw)]
\* lines 308-318
PlaywrightMissingEntry(url, kw) ==
    [title |-> PStr(<<"T","e","n","d","o","r"," ","o","p","p","o","r","t","u","n","i","t","i","e","s"," ","f","o","r"," ">> \o kw \o <<" ","o","n"," ">> \o PortalHost(url)),
     deadline |-> PStr(<<"C","h","e","c","k"," ","P","o","r","t","a","l">>),
     link |-> PStr(url),
     source |-> PStr(PortalHost(url)),
     keywords_matched |-> PStr(kw),
     note |-> PStr(<<"U","s","i","n","g"," ","f","a","l","l","b","a","c","k"," ","d","a","t","a"," ","(","P","l","a","y","w","r","i","g","h","t"," ","n","o","t"," ","a","v","a","i","l","a","b","l","e",")">>)]
PlaywrightMissingEntries(kw) ==
    [k \in 1..Len(portals) |-> PlaywrightMissingEntry(portals[k], kw)]
\* lines 322-331
GenericEntry(kw) ==
    [title |-> PStr(<<"G","o","v","e","r","n","m","e","n","t"," ","t","e","n","d","e","r","s"," ","r","e","l","a","t","e","d"," ","t","o"," ">> \o kw),
     deadline |-> PStr(<<"C","h","e","c","k"," ","A","v","a","i","l","a","b","l","e"," ","P","o","r","t","a","l","s">>),
     link |-> PStr(<<"h","t","t","p","s",":","/","/","g","e","m",".","g","o","v",".","i","n">>),
     source |-> PStr(<<"T","e","n","d","e","r"," ","P","o","r","t","a","l">>),
     keywords_matched |-> PStr(kw),
     note |-> PStr(<<"S","a","m","p","l","e"," ","d","a","t","a"," ","o","n","l","y">>)]

\* the branch taken for a portal (lines 175, 219, 249)
PortalBranch(url) ==
    IF Contains(<<"g","e","m",".","g","o","v",".","i","n">>, url) THEN "gem_search"
    ELSE IF Contains(<<"e","p","r","o","c","u","r","e",".","g","o","v",".","i","n">>, url) THEN "eproc"
    ELSE IF Contains(<<"s","t","a","r","t","u","p","i","n","d","i","a",".","g","o","v",".","i","n">>, url) THEN "startup"
    ELSE "sleep"

TimeoutMessage == <<"T","i","m","e","o","u","t"," ","3","0","0","0","0","m","s"," ","e","x","c","e","e","d","e","d",".">>

agent_vars == <<pc, query, user_profile, profile_again, keywords, location, tenders,
                i, parsed_tender, eligibility, judged, app_summary, results, output,
                exc, calls, llm_last, shown>>

\* the loop of line 170 moves to the next portal, or to browser.close()
ToNextPortal ==
    IF portal < Len(portals)
    THEN portal' = portal + 1 /\ lpc' = "goto"
    ELSE portal' = portal /\ lpc' = "close"

\* line 165: sync_playwright() starts the driver; only ImportError is caught
\* (line 306)
StartPlaywright ==
    /\ lpc = "start"
    /\ \/ /\ lpc' = "launch"
          /\ UNCHANGED <<tender_data, lexc>>
       \/ /\ tender_data' = tender_data \o PlaywrightMissingEntries(lkeywords)
          /\ lpc' = "final"
          /\ UNCHANGED lexc
       \/ /\ lexc' = Raised("Error", "scrape_tender_portals")
          /\ lpc' = "raised"
          /\ UNCHANGED tender_data
    /\ UNCHANGED <<lkeywords, portal, sel, elems, browser_open, failed, lresult>>
    /\ UNCHANGED agent_vars

\* lines 167-168, and the handler of lines 293-305
Launch ==
    /\ lpc = "launch"
    /\ \/ /\ browser_open' = TRUE
          /\ portal' = 1
          /\ lpc' = "goto"
          /\ UNCHANGED tender_data
       \/ \E opened \in BOOLEAN :
          /\ browser_open' = opened
          /\ tender_data' = tender_data \o SampleEntries(lkeywords)
          /\ lpc' = "final"
          /\ UNCHANGED portal
    /\ UNCHANGED <<lkeywords, sel, elems, failed, lresult, lexc>>
    /\ UNCHANGED agent_vars

\* lines 172-173, and the handler of lines 281-290
Goto ==
    /\ lpc = "goto"
    /\ \/ /\ lpc' = PortalBranch(portals[portal])
          /\ sel' = 1
          /\ UNCHANGED <<tender_data, portal, failed>>
       \/ /\ tender_data' = Append(tender_data, ErrorEntry(portals[portal], TimeoutMessage))
          /\ failed' = failed \cup {portal}
          /\ ToNextPortal
          /\ UNCHANGED sel
    /\ UNCHANGED <<lkeywords, elems, browser_open, lresult, lexc>>
    /\ UNCHANGED agent_vars

\* lines 182-188: fill and press with one selector; a failure is swallowed
\* and the next selector tried
GemSearch ==
    /\ lpc = "gem_search"
    /\ \/ /\ lpc' = "gem_wait"
          /\ UNCHANGED <<sel, failed>>
       \/ IF sel < GemSearchSelectors
          THEN sel' = sel + 1 /\ lpc' = "gem_search" /\ failed' = failed
          ELSE sel' = sel /\ lpc' = "gem_wait" /\ failed' = failed \cup {portal}
    /\ UNCHANGED <<lkeywords, tender_data, portal, elems, browser_open, lresult, lexc>>
    /\ UNCHANGED agent_vars

\* lines 190-191
GemWait ==
    /\ lpc = "gem_wait"
    /\ \/ /\ lpc' = "gem_results"
          /\ sel' = 1
          /\ UNCHANGED <<tender_data, portal, failed>>
       \/ /\ tender_data' = Append(tender_data, ErrorEntry(portals[portal], TimeoutMessage))
          /\ failed' = failed \cup {portal}
          /\ ToNextPortal
          /\ UNCHANGED sel
    /\ UNCHANGED <<lkeywords, elems, browser_open, lresult, lexc>>
    /\ UNCHANGED agent_vars

\* lines 200-203: query_selector_all with one result selector
GemResults ==
    /\ lpc = "gem_results"
    /\ \/ \E n \in 0..MaxElems :
          /\ IF n > 0
             THEN /\ elems' = Take(Elements(n), GemLimit)
                  /\ lpc' = "gem_items"
                  /\ UNCHANGED <<sel, portal, failed>>
             ELSE IF sel < GemResultSelectors
             THEN /\ sel' = sel + 1
                  /\ lpc' = "gem_results"
                  /\ UNCHANGED <<elems, portal, failed>>
             ELSE /\ failed' = failed \cup {portal}
                  /\ ToNextPortal
                  /\ UNCHANGED <<sel, elems>>
          /\ UNCHANGED tender_data
       \/ /\ tender_data' = Append(tender_data, ErrorEntry(portals[portal], TimeoutMessage))
          /\ failed' = failed \cup {portal}
          /\ ToNextPortal
          /\ UNCHANGED <<sel, elems>>
    /\ UNCHANGED <<lkeywords, browser_open, lresult, lexc>>
    /\ UNCHANGED agent_vars

\* lines 203-217: one result of results[:5]
GemItem ==
    /\ lpc = "gem_items"
    /\ IF Len(elems) = 0
       THEN /\ ToNextPortal
            /\ UNCHANGED <<tender_data, elems, failed>>
       ELSE \/ /\ tender_data' =
                    IF elems[1].ok
                    THEN Append(tender_data,
                            ScrapedEntry(elems[1].text, portals[portal], <<"G","e","M">>, lkeywords))
                    ELSE tender_data
               /\ elems' = Tail(elems)
               /\ UNCHANGED <<lpc, portal, failed>>
            \/ /\ tender_data' = Append(tender_data, ErrorEntry(portals[portal], TimeoutMessage))
               /\ elems' = <<>>
               /\ failed' = failed \cup {portal}
               /\ ToNextPortal
    /\ UNCHANGED <<lkeywords, sel, browser_open, lresult, lexc>>
    /\ UNCHANGED agent_vars

\* lines 221-225 (eProcure), 251-255 (Startup India): fill, submit, wait and
\* query; the handlers of lines 238-247 and 268-277
PortalFallback(url, kw) ==
    IF PortalBranch(url) = "eproc" THEN EprocureFallback(url, kw) ELSE StartupFallback(url, kw)
PortalSource(url) ==
    IF PortalBranch(url) = "eproc" THEN <<"e","P","r","o","c","u","r","e">> ELSE <<"S","t","a","r","t","u","p"," ","I","n","d","i","a">>

SearchPortal ==
    /\ lpc \in {"eproc", "startup"}
    /\ \/ \E n \in 0..MaxElems :
          /\ elems' = Take(Elements(n), RowLimit)
          /\ lpc' = "rows"
          /\ UNCHANGED <<tender_data, portal, failed>>
       \/ /\ tender_data' = Append(tender_data, PortalFallback(portals[portal], lkeywords))
          /\ failed' = failed \cup {portal}
          /\ ToNextPortal
          /\ UNCHANGED elems
    /\ UNCHANGED <<lkeywords, sel, browser_open, lresult, lexc>>
    /\ UNCHANGED agent_vars

\* lines 226-237, 256-267: one row of rows[:3], one result of results[:3]
PortalRow ==
    /\ lpc = "rows"
    /\ IF Len(elems) = 0
       THEN /\ ToNextPortal
            /\ UNCHANGED <<tender_data, elems, failed>>
       ELSE \/ /\ tender_data' =
                    IF elems[1].ok
                    THEN Append(tender_data,
                            ScrapedEntry(elems[1].text, portals[portal],
                                         PortalSource(portals[portal]), lkeywords))
                    ELSE tender_data
               /\ elems' = Tail(elems)
               /\ UNCHANGED <<lpc, portal, failed>>
            \/ /\ tender_data' = Append(tender_data, PortalFallback(portals[portal], lkeywords))
               /\ elems' = <<>>
               /\ failed' = failed \cup {portal}
               /\ ToNextPortal
    /\ UNCHANGED <<lkeywords, sel, browser_open, lresult, lexc>>
    /\ UNCHANGED agent_vars

\* line 292, and the handler of lines 293-305
Close ==
    /\ lpc = "close"
    /\ \/ /\ browser_open' = FALSE
          /\ UNCHANGED tender_data
       \/ /\ tender_data' = tender_data \o SampleEntries(lkeywords)
          /\ UNCHANGED browser_open
    /\ lpc' = "final"
    /\ UNCHANGED <<lkeywords, portal, sel, elems, failed, lresult, lexc>>
    /\ UNCHANGED agent_vars

\* lines 320-333
Return ==
    /\ lpc = "final"
    /\ lresult' = IF Len(tender_data) = 0 THEN <<GenericEntry(lkeywords)>> ELSE tender_data
    /\ lpc' = "done"
    /\ UNCHANGED <<lkeywords, tender_data, portal, sel, elems, browser_open, failed, lexc>>
    /\ UNCHANGED agent_vars

\* lines 461-466 of main_tender_agent in src/main.py: the list returned is
\* the candidate list of the run
LiveFetch ==
    /\ lpc = "done"
    /\ pc = "idle"
    /\ tenders' = lresult
    /\ calls' = Called("source")
    /\ IF Len(lresult) = 0
       THEN output' = PStr(NoTendersFound(lkeywords)) /\ pc' = "done"
       ELSE output' = output /\ pc' = "live_loop"
    /\ UNCHANGED <<query, user_profile, profile_again, keywords, location, i,
                   parsed_tender, eligibility, judged, app_summary, results, exc,
                   llm_last, shown>>
    /\ UNCHANGED live_vars

\* the keyword strings scrape_tender_portals is called with
LiveKeywords == { <<"t","e","c","h"," ","a","i">> }

InitLive ==
    /\ pc = "idle"
    /\ query = <<>>
    /\ AgentIdle
    /\ lpc = "start"
    /\ lkeywords \in LiveKeywords
    /\ tender_data = <<>>
    /\ portal = 0
    /\ sel = 0
    /\ elems = <<>>
    /\ browser_open = FALSE
    /\ failed = {}
    /\ lresult = NoValue
    /\ lexc = NoValue

NextLive ==
    \/ StartPlaywright
    \/ Launch
    \/ Goto
    \/ GemSearch
    \/ GemWait
    \/ GemResults
    \/ GemItem
    \/ SearchPortal
    \/ PortalRow
    \/ Close
    \/ Return
    \/ LiveFetch

SpecLive == InitLive /\ [][NextLive]_vars

-----------------------------------------------------------------------------
(* SpecSources: main_tender_agent with either Tender Source, the static one
   of src/cloud_main.py or the live one of src/main.py *)

InitSources == Init \/ InitLive

NextSources == Next \/ NextLive

SpecSources == InitSources /\ [][NextSources]_vars

-----------------------------------------------------------------------------
(* Properties *)

\* what the properties say of texts, stated without the extraction code
OccursNoCase(word, s, p) ==
    /\ p >= 1
    /\ p + Len(word) - 1 <= Len(s)
    /\ \A k \in 1..Len(word) : ToLower(s[p + k - 1]) = ToLower(word[k])
\* label, one or more of ':' and white space, then a character of the value
HasLabelledValue(label, s, amount) ==
    \E p \in 1..Len(s) :
        /\ OccursNoCase(label, s, p)
        /\ \E e \in (p + Len(label) + 1)..Len(s) :
            /\ \A k \in (p + Len(label))..(e - 1) : s[k] \in {":", " ", "\t", "\n", "\r"}
            /\ IF amount THEN s[e] \in {"0", "1", "2", "3", "4", "5", "6", "7", "8", "9", ","}
                         ELSE s[e] \notin {"\n", ","}
HasCompanyPattern(s) ==
    \E l \in { <<"c","o","m","p","a","n","y">>, <<"s","t","a","r","t","u","p">>, <<"o","r","g","a","n","i","z","a","t","i","o","n">>, <<"f","i","r","m">> } :
        HasLabelledValue(l, s, FALSE)
HasLocationPattern(s) ==
    \E l \in { <<"l","o","c","a","t","i","o","n">>, <<"b","a","s","e","d"," ","i","n">>, <<"f","r","o","m">>, <<"c","i","t","y">> } :
        HasLabelledValue(l, s, FALSE)
HasBudgetPattern(s) ==
    \E l \in { <<"b","u","d","g","e","t">>, <<"f","u","n","d","i","n","g">>, <<"i","n","v","e","s","t","m","e","n","t">> } :
        HasLabelledValue(l, s, TRUE)
Vocabulary ==
    { <<"t","e","c","h">>, <<"h","e","a","l","t","h","c","a","r","e">>, <<"f","i","n","t","e","c","h">>, <<"a","g","r","i","c","u","l","t","u","r","e">>, <<"m","a","n","u","f","a","c","t","u","r","i","n","g">>,
      <<"e","d","u","c","a","t","i","o","n">>, <<"r","e","t","a","i","l">>, <<"l","o","g","i","s","t","i","c","s">>, <<"r","e","n","e","w","a","b","l","e"," ","e","n","e","r","g","y">>, <<"a","i">>,
      <<"b","l","o","c","k","c","h","a","i","n">> }
InText(word, s) == \E p \in 1..Len(s) : OccursNoCase(word, s, p)
HasIndustryKeyword(s) == \E w \in Vocabulary : InText(w, s)
HasStageWord(s) ==
    \E w \in { <<"i","n","n","o","v","a","t","i","o","n">>, <<"r","e","s","e","a","r","c","h">>, <<"d","e","v","e","l","o","p","m","e","n","t">>, <<"p","r","o","t","o","t","y","p","e">>,
               <<"p","i","l","o","t">>, <<"s","c","a","l","e">>, <<"g","r","o","w","t","h">> } :
        \E p \in 1..Len(s) :
            /\ OccursNoCase(w, s, p)
            /\ (p = 1 \/ ~IsWordChar(s[p - 1]))
            /\ (p + Len(w) > Len(s) \/ ~IsWordChar(s[p + Len(w)]))
NoProfilePattern(s) ==
    /\ ~HasCompanyPattern(s)
    /\ ~HasIndustryKeyword(s)
    /\ ~HasLocationPattern(s)
    /\ ~HasBudgetPattern(s)
Extracted == "keywords" \in DOMAIN user_profile
KeywordsOf(profile) == {profile.keywords.v[k].v : k \in 1..Len(profile.keywords.v)}
EmptyProfile(profile) ==
    /\ profile.company_name = None
    /\ profile.industry = None
    /\ profile.location = None
    /\ profile.budget_range = None
    /\ profile.keywords = PList(<<>>)
Answered == "kind" \in DOMAIN llm_last
LLMFailed == Answered /\ llm_last.kind \in {"error", "text"}
MumbaiQuery == <<"W","e"," ","a","r","e"," ","a"," ","t","e","c","h"," ","s","t","a","r","t","u","p"," ","b","a","s","e","d"," ","i","n"," ","M","u","m","b","a","i">>

\* C1: for every query and every behaviour of the LLM service,
\* main_tender_agent returns a string and never raises to its caller.
C1_ReturnsStringNeverRaises ==
    /\ pc # "raised"
    /\ exc = NoValue
    /\ pc = "done" => output.t = "str"

\* C2: when parse_user_profile yields no keyword, main_tender_agent returns
\* exactly the need-more-details message and has called neither the Tender
\* Source nor parse_tender_document, check_eligibility,
\* generate_application_summary or the LLM.
C2_NoKeywordsNoCalls ==
    (Extracted /\ Len(user_profile.keywords.v) = 0) =>
        /\ pc = "done"
        /\ output = PStr(<<"P","l","e","a","s","e"," ","p","r","o","v","i","d","e"," ","m","o","r","e"," ","d","e","t","a","i","l","s"," ","a","b","o","u","t"," ","y","o","u","r"," ","c","o","m","p","a","n","y",","," ","i","n","d","u","s","t","r","y",","," ","a","n","d"," ","l","o","c","a","t","i","o","n"," ","t","o"," ","f","i","n","d"," ","r","e","l","e","v","a","n","t"," ","t","e","n","d","e","r","s",".">>)
        /\ calls = [source |-> 0, parse |-> 0, check |-> 0, summary |-> 0, llm |-> 0]
C2_Witness ==
    /\ pc = "done"
    /\ query = <<"h","e","l","l","o">>
    /\ Extracted
    /\ user_profile.keywords = PList(<<>>)
    /\ output.t = "str"

\* C3: scrape_tender_portals returns a non-empty list and raises no
\* exception, whichever of its steps fail.
C3_NonEmptyNeverRaises ==
    /\ lpc # "raised"
    /\ lexc = NoValue
    /\ lpc = "done" => Len(lresult) > 0

\* C4: get_sample_tenders returns exactly 3 candidates (GeM, eProcure, Startup
\* India, in that order) when the location is empty or None and exactly 4
\* when it is not empty; only the 4th is tagged with the location, and the
\* first 3 are the same with and without a location.
C4_SampleTenders ==
    pc = "sampled" =>
        LET given == location # None /\ Len(location.v) > 0
        IN  /\ Len(tenders) = IF given THEN 4 ELSE 3
            /\ [k \in 1..3 |-> tenders[k].source.v]
                 = << <<"G","e","M">>, <<"e","P","r","o","c","u","r","e">>, <<"S","t","a","r","t","u","p"," ","I","n","d","i","a">> >>
            /\ \A k \in 1..3 : tenders[k].keywords_matched.v = keywords
            /\ given =>
                /\ tenders[4].keywords_matched.v = keywords \o <<" ">> \o location.v
                /\ OccursAt(location.v, tenders[4].title.v,
                            Len(tenders[4].title.v) - Len(location.v) + 1)
                /\ Contains(location.v, tenders[4].description.v)
            /\ SubSeq(tenders, 1, 3) = SubSeq(get_sample_tenders(keywords, None), 1, 3)
C4_Witness ==
    /\ pc = "sampled"
    /\ location = PStr(<<"N","e","w"," ","D","e","l","h","i">>)
    /\ Len(tenders) = 4
    /\ tenders[4].keywords_matched.v = keywords \o <<" ","N","e","w"," ","D","e","l","h","i">>

\* C5: when the LLM call fails or its response is no JSON,
\* parse_tender_document raises nothing and returns the degraded document:
\* title 'Document Parse Error', a description that begins with the first
\* 200 characters of the input text, 'Review document manually' for
\* eligibility_criteria and application_requirements.
C5_DegradedDocument ==
    (pc = "score" /\ LLMFailed) =>
        LET content == DictRepr(tenders[i + 1], TenderKeys)
            doc == parsed_tender.v
        IN  /\ exc = NoValue
            /\ parsed_tender.t = "dict"
            /\ doc["title"] = PStr(<<"D","o","c","u","m","e","n","t"," ","P","a","r","s","e"," ","E","r","r","o","r">>)
            /\ doc["eligibility_criteria"] = PStr(<<"R","e","v","i","e","w"," ","d","o","c","u","m","e","n","t"," ","m","a","n","u","a","l","l","y">>)
            /\ doc["application_requirements"] = PStr(<<"R","e","v","i","e","w"," ","d","o","c","u","m","e","n","t"," ","m","a","n","u","a","l","l","y">>)
            /\ doc["description"].t = "str"
            /\ Len(doc["description"].v) >= (IF Len(content) < 200 THEN Len(content) ELSE 200)
            /\ \A k \in 1..200 : k <= Len(content) => doc["description"].v[k] = content[k]
C5_Witness ==
    /\ pc = "score"
    /\ llm_last.kind = "text"
    /\ Len(DictRepr(tenders[i + 1], TenderKeys)) > 200
    /\ parsed_tender.v["title"] = PStr(<<"D","o","c","u","m","e","n","t"," ","P","a","r","s","e"," ","E","r","r","o","r">>)
    /\ Len(parsed_tender.v["description"].v) = 203

\* C6: for every tender document and profile the pipeline hands it,
\* check_eligibility never raises, and on a failure of the LLM call or of
\* parsing its response returns exactly eligible=true, match_score=75,
\* reasons=['General eligibility assumed'], missing_requirements=['Manual
\* review required'].
C6_DefaultNeverRaises ==
    /\ exc # NoValue => exc.where # "check_eligibility"
    /\ (pc = "summarize" /\ LLMFailed) =>
          eligibility = PDict([eligible |-> PBool(TRUE), match_score |-> PInt(75),
                               reasons |-> PList(<<PStr(<<"G","e","n","e","r","a","l"," ","e","l","i","g","i","b","i","l","i","t","y"," ","a","s","s","u","m","e","d">>)>>),
                               missing_requirements |-> PList(<<PStr(<<"M","a","n","u","a","l"," ","r","e","v","i","e","w"," ","r","e","q","u","i","r","e","d">>)>>)])

\* C7: generate_application_summary returns the LLM response text without
\* its surrounding white space; on a failure it returns the templated
\* sentence naming the company and the tender title, with the placeholders
\* of the template when the profile has no company name or the document no
\* title.
IsTrimOf(x, content) ==
    /\ Len(x) > 0 => ~IsSpace(x[1]) /\ ~IsSpace(x[Len(x)])
    /\ \E a \in 0..Len(content) :
        /\ a + Len(x) <= Len(content)
        /\ SubSeq(content, a + 1, a + Len(x)) = x
        /\ \A k \in (1..a) \cup ((a + Len(x) + 1)..Len(content)) : IsSpace(content[k])
C7_SummaryOrTemplate ==
    (pc \in {"enrich", "finish"} /\ LLMFailed) =>
        IF llm_last.kind = "text"
        THEN app_summary.t = "str" /\ IsTrimOf(app_summary.v, llm_last.content)
        ELSE app_summary = PStr(
                <<"A","p","p","l","i","c","a","t","i","o","n"," ","s","u","m","m","a","r","y"," ","f","o","r"," ">>
                \o (IF user_profile.company_name = None THEN <<"C","o","m","p","a","n","y">>
                    ELSE user_profile.company_name.v)
                \o <<" ","a","p","p","l","y","i","n","g"," ","t","o"," ">>
                \o (IF "title" \in DOMAIN parsed_tender.v THEN parsed_tender.v["title"].v
                    ELSE <<"t","e","n","d","e","r">>)
                \o <<"."," ","M","a","n","u","a","l"," ","c","o","m","p","l","e","t","i","o","n"," ","r","e","q","u","i","r","e","d",".">>)

\* C8 as stated: for a text with no company, industry, location or budget
\* pattern, parse_user_profile returns company_name, industry, location and
\* budget_range None and an empty keyword list.
C8_NoPatternEmptyProfile ==
    (Extracted /\ NoProfilePattern(query)) => EmptyProfile(user_profile)
\* C8 as amended: the same for a text that, besides, holds no stage keyword
\* (innovation, research, development, prototype, pilot, scale, growth) as a
\* whole word; a stage keyword found is in the keyword list.
C8_NoPatternNoStageWord ==
    (Extracted /\ NoProfilePattern(query)) =>
        /\ user_profile.company_name = None
        /\ user_profile.industry = None
        /\ user_profile.location = None
        /\ user_profile.budget_range = None
        /\ ~HasStageWord(query) => user_profile.keywords = PList(<<>>)
C8_Witness ==
    /\ pc = "extracted"
    /\ query = <<"h","e","l","l","o"," ","p","i","l","o","t","s">>
    /\ NoProfilePattern(query)
    /\ ~HasStageWord(query)
    /\ EmptyProfile(user_profile)

\* C9 as stated: every vocabulary keyword found in the text is in the keyword
\* list and is the profile's industry.
C9_EveryKeywordIsIndustry ==
    Extracted =>
        \A w \in Vocabulary :
            InText(w, query) => w \in KeywordsOf(user_profile) /\ user_profile.industry = PStr(w)
\* C9 as amended: every vocabulary keyword found in the text is in the keyword
\* list, and the industry is the first of them in the order of the
\* vocabulary.
VocabularyOrder ==
    << <<"t","e","c","h">>, <<"h","e","a","l","t","h","c","a","r","e">>, <<"f","i","n","t","e","c","h">>, <<"a","g","r","i","c","u","l","t","u","r","e">>, <<"m","a","n","u","f","a","c","t","u","r","i","n","g">>,
       <<"e","d","u","c","a","t","i","o","n">>, <<"r","e","t","a","i","l">>, <<"l","o","g","i","s","t","i","c","s">>, <<"r","e","n","e","w","a","b","l","e"," ","e","n","e","r","g","y">>, <<"a","i">>,
       <<"b","l","o","c","k","c","h","a","i","n">> >>
C9_KeywordsAndFirstIndustry ==
    (Extracted /\ HasIndustryKeyword(query)) =>
        /\ \A w \in Vocabulary : InText(w, query) => w \in KeywordsOf(user_profile)
        /\ \E k \in 1..Len(VocabularyOrder) :
            /\ InText(VocabularyOrder[k], query)
            /\ \A j \in 1..(k - 1) : ~InText(VocabularyOrder[j], query)
            /\ user_profile.industry = PStr(VocabularyOrder[k])
C9_Witness ==
    /\ pc = "extracted"
    /\ query = <<"f","i","n","t","e","c","h"," ","M","u","m","b","a","i">>
    /\ KeywordsOf(user_profile) = { <<"t","e","c","h">>, <<"f","i","n","t","e","c","h">>, <<"a","i">> }
    /\ user_profile.industry = PStr(<<"t","e","c","h">>)

\* C10 as stated: for 'We are a tech startup based in Mumbai' the profile has
\* industry 'tech', location 'Mumbai' and keyword 'tech', the static fetch
\* yields at least 3 candidates, and whatever the LLM service does the run
\* ends with a report that contains 'TENDER 1:' and 'NEXT STEPS:'.
MumbaiProfile ==
    /\ user_profile.industry = PStr(<<"t","e","c","h">>)
    /\ user_profile.location = PStr(<<"M","u","m","b","a","i">>)
    /\ <<"t","e","c","h">> \in KeywordsOf(user_profile)
FooterText ==
    <<"\n","\n","U+011F","U+0178","U+201C","U+2039"," ","N","E","X","T"," ","S","T","E","P","S",":","\n","1","."," ","V","i","s","i","t"," ","t","h","e"," ","p","o","r","t","a","l"," ","l","i","n","k","s"," ","t","o"," ","g","e","t"," ","c","o","m","p","l","e","t","e"," ","t","e","n","d","e","r"," ","d","o","c","u","m","e","n","t","s","\n","2","."," ","R","e","v","i","e","w"," ","e","l","i","g","i","b","i","l","i","t","y"," ","c","r","i","t","e","r","i","a"," ","c","a","r","e","f","u","l","l","y","\n","3","."," ","P","r","e","p","a","r","e"," ","r","e","q","u","i","r","e","d"," ","d","o","c","u","m","e","n","t","s","\n","4","."," ","S","u","b","m","i","t"," ","b","e","f","o","r","e"," ","d","e","a","d","l","i","n","e","\n">>
\* the positions of the candidates judged eligible, in candidate order
EligiblePositions ==
    LET Eligible(k) == judged[k]
    IN  SelectSeq([k \in 1..Len(judged) |-> k], Eligible)
\* text is a full report: the profile header, the blocks, the footer
IsFullReport(text, blocks) ==
    LET body == StrConcat(blocks) \o FooterText
        head == SubSeq(text, 1, Len(text) - Len(body))
    IN  /\ Len(text) > Len(body)
        /\ OccursAt(body, text, Len(text) - Len(body) + 1)
        /\ OccursAt(<<"\n","T","E","N","D","E","R"," ","S","E","A","R","C","H"," ","R","E","S","U","L","T","S"," ","F","O","R",":"," ">>, head, 1)
        /\ Contains(<<"\n","I","N","D","U","S","T","R","Y",":"," ">>, head)
        /\ Contains(<<"\n","L","O","C","A","T","I","O","N",":"," ">>, head)
        /\ ~Contains(<<"T","E","N","D","E","R"," ","1">>, head)

\* C11: what main_tender_agent returns is the need-more-detail message, the
\* no-tenders-found message, the no-eligible-tenders message or a full
\* report; with keywords and candidates it is the no-eligible message
\* exactly when none of the first three candidates was judged eligible,
\* and otherwise the header, one block per eligible candidate in candidate
\* order (1 to 3 blocks) and the NEXT STEPS footer.
C11_FourForms ==
    pc = "done" =>
        /\ output.t = "str"
        /\ IF Len(user_profile.keywords.v) = 0
           THEN output.v = <<"P","l","e","a","s","e"," ","p","r","o","v","i","d","e"," ","m","o","r","e"," ","d","e","t","a","i","l","s"," ","a","b","o","u","t"," ","y","o","u","r"," ","c","o","m","p","a","n","y",","," ","i","n","d","u","s","t","r","y",","," ","a","n","d"," ","l","o","c","a","t","i","o","n"," ","t","o"," ","f","i","n","d"," ","r","e","l","e","v","a","n","t"," ","t","e","n","d","e","r","s",".">>
           ELSE IF Len(tenders) = 0
           THEN output.v = <<"N","o"," ","t","e","n","d","e","r","s"," ","f","o","u","n","d"," ","f","o","r"," ","k","e","y","w","o","r","d","s",":"," ">> \o keywords
                              \o <<"."," ","T","r","y"," ","d","i","f","f","e","r","e","n","t"," ","s","e","a","r","c","h"," ","t","e","r","m","s",".">>
           ELSE /\ Len(judged) = (IF Len(tenders) < 3 THEN Len(tenders) ELSE 3)
                /\ (output.v = <<"N","o"," ","e","l","i","g","i","b","l","e"," ","t","e","n","d","e","r","s"," ","f","o","u","n","d"," ","m","a","t","c","h","i","n","g"," ","y","o","u","r"," ","p","r","o","f","i","l","e",".">>)
                      <=> (\A k \in 1..Len(judged) : ~judged[k])
                /\ (\E k \in 1..Len(judged) : judged[k]) =>
                      /\ Len(results) = Len(EligiblePositions)
                      /\ Len(results) \in 1..3
                      /\ \A j \in 1..Len(results) :
                            OccursAt(<<"\n","T","E","N","D","E","R"," ">> \o IntStr(EligiblePositions[j]) \o <<":"," ">>
                                        \o tenders[EligiblePositions[j]].title.v \o <<"\n">>,
                                     results[j], 1)
                      /\ IsFullReport(output.v, results)
C11_Witness ==
    /\ pc = "done"
    /\ judged = <<FALSE, TRUE, TRUE>>
    /\ Len(results) = 2
    /\ IsFullReport(output.v, results)
    /\ OccursAt(<<"\n","T","E","N","D","E","R"," ","2",":"," ">>, results[1], 1)

\* C12: two calls of parse_user_profile on the same text return profiles
\* that are equal field for field, with equal keyword sets, and no keyword
\* list holds a keyword twice, also when a stage keyword occurs several
\* times or in different letter case.
NoKeywordTwice(profile) ==
    \A a, b \in 1..Len(profile.keywords.v) :
        a # b => profile.keywords.v[a] # profile.keywords.v[b]
C12_IdempotentDeduplicated ==
    /\ Extracted => NoKeywordTwice(user_profile)
    /\ pc = "extracted" =>
        /\ NoKeywordTwice(profile_again)
        /\ KeywordsOf(user_profile) = KeywordsOf(profile_again)
        /\ \A f \in {"company_name", "industry", "location", "budget_range",
                     "company_size", "preferences"} :
              user_profile[f] = profile_again[f]
C12_Witness ==
    /\ pc = "extracted"
    /\ query = <<"R","e","s","e","a","r","c","h"," ","r","e","s","e","a","r","c","h">>
    /\ user_profile.keywords = PList(<<PStr(<<"r","e","s","e","a","r","c","h">>)>>)
    /\ profile_again.keywords = PList(<<PStr(<<"r","e","s","e","a","r","c","h">>)>>)

\* C13: main_tender_agent handles only the candidates at positions 1..3, in
\* list order and one after the other: parse_tender_document, then
\* check_eligibility, then generate_application_summary only for a candidate
\* judged eligible; a candidate judged not eligible adds no block and no
\* summary call, the 4th candidate is never enriched, scored or reported,
\* and a run makes at most 9 LLM calls.
NumberEligible == Len(EligiblePositions)
C13_FirstThreeInOrder ==
    (pc \in {"enrich", "score", "summarize", "finish", "done", "raised"}
        /\ Len(user_profile.keywords.v) > 0) =>
        /\ i \in 0..3
        /\ calls.source = 1
        /\ calls.parse <= 3 /\ calls.check <= 3 /\ calls.summary <= 3
        /\ calls.llm <= calls.parse + calls.check + calls.summary
        /\ calls.llm <= 9
        /\ Len(judged) <= calls.check
        /\ pc = "enrich" =>
              /\ i < 3
              /\ calls.parse = i /\ calls.check = i /\ Len(judged) = i
              /\ calls.summary = NumberEligible /\ Len(results) = NumberEligible
        /\ pc = "score" =>
              /\ calls.parse = i + 1 /\ calls.check = i /\ Len(judged) = i
              /\ calls.summary = NumberEligible /\ Len(results) = NumberEligible
        /\ pc = "summarize" =>
              /\ calls.parse = i + 1 /\ calls.check = i + 1 /\ Len(judged) = i + 1
              /\ judged[i + 1]
              /\ calls.summary = NumberEligible - 1 /\ Len(results) = NumberEligible - 1
        /\ pc \in {"finish", "done"} =>
              /\ calls.parse = i /\ calls.check = i /\ Len(judged) = i
              /\ calls.summary = NumberEligible /\ Len(results) = NumberEligible
        /\ \A j \in 1..Len(results) :
              /\ ~Contains(<<"T","E","N","D","E","R"," ","4",":">>, results[j])
              /\ Len(tenders) >= 4 => ~Contains(tenders[4].title.v, results[j])
C13_Witness ==
    /\ pc = "done"
    /\ Len(tenders) = 4
    /\ judged = <<TRUE, FALSE, TRUE>>
    /\ calls = [source |-> 1, parse |-> 3, check |-> 3, summary |-> 2, llm |-> 8]
    /\ Len(results) = 2

\* a candidate that was not read from a page
IsSynthetic(entry) ==
    \/ "error" \in DOMAIN entry
    \/ "note" \in DOMAIN entry
    \/ OccursAt(<<"T","e","n","d","e","r","s"," ","a","v","a","i","l","a","b","l","e"," ","f","o","r"," ">>, entry.title.v, 1)
    \/ OccursAt(<<"S","t","a","r","t","u","p"," ","g","r","a","n","t","s"," ","a","v","a","i","l","a","b","l","e"," ","f","o","r"," ">>, entry.title.v, 1)
SyntheticFor(url) ==
    {j \in 1..Len(tender_data) :
        tender_data[j].link = PStr(url) /\ IsSynthetic(tender_data[j])}
InPortalLoop == lpc \notin {"idle", "start", "launch", "final", "done", "raised"}

\* C14: in scrape_tender_portals, a portal whose sequence had a failing step
\* (navigation, filling the search box, submitting, finding a result list)
\* has exactly one synthetic candidate in the result and the portals after
\* it are still attempted; when the browser subsystem is unavailable the
\* result is one synthetic candidate per portal, 3 in all, and nothing else.
C14_OneSyntheticPerFailedPortal ==
    /\ InPortalLoop =>
          \A k \in failed :
              (portal > k \/ lpc = "close") =>
                  Cardinality(SyntheticFor(portals[k])) = 1
    /\ lpc = "close" => portal = 3
    /\ (lpc = "final" /\ portal = 0) =>
          /\ Len(tender_data) = 3
          /\ \A k \in 1..3 :
                tender_data[k].link = PStr(portals[k]) /\ IsSynthetic(tender_data[k])

\* the expander shows the title, source, link and deadline of candidate c
ShowsCandidate(e, c) ==
    /\ e.tender_title = PyStr(c["title"])
    /\ e.source = PyStr(c["source"])
    /\ e.link = PyStr(c["link"])
    /\ e.deadline = PyStr(DictGet(c, "deadline", PStr(<<"C","h","e","c","k"," ","P","o","r","t","a","l">>)))
\* the match score the expander shows is the one written in the block
ShowsScoreOf(e, block) ==
    Contains(<<"\n","M","A","T","C","H"," ","S","C","O","R","E",":"," ">> \o e.match_score \o <<"\n","D","E","A","D","L","I","N","E",":"," ">>, block)

\* C15: when the handler of cloud_app.py displays a report, splitting it on
\* 'TENDER ' gives exactly one segment per tender block, and the expander
\* of the k-th segment shows the title, source, link, match score and
\* deadline of the k-th block, whatever the title contains.
C15_OneExpanderPerBlock ==
    (shown # NoValue /\ exc = NoValue /\ Len(results) > 0) =>
        /\ shown.t = "expanders"
        /\ Len(shown.v) = Len(results)
        /\ \A k \in 1..Len(results) :
              /\ ShowsCandidate(shown.v[k], tenders[EligiblePositions[k]])
              /\ ShowsScoreOf(shown.v[k], results[k])
\* a report of three blocks is displayed as four expanders, the first one
\* made of the report header
C15_HeaderExpander ==
    /\ shown # NoValue /\ exc = NoValue
    /\ Len(results) = 3
    /\ shown.t = "expanders"
    /\ Len(shown.v) = 4
    /\ shown.v[1].source = <<"N","/","A">>

\* the distinct elements of l, each at the place of its first occurrence
FirstOccurrences(l) ==
    LET IsFirst(k) == \A j \in 1..(k - 1) : l[j] # l[k]
        at == SelectSeq([k \in 1..Len(l) |-> k], IsFirst)
    IN  [k \in 1..Len(at) |-> l[at[k]]]
\* the keywords of s in the order the extraction found them, joined as the
\* search string is
SearchStringInFoundOrder(s) ==
    LET found == FirstOccurrences(KeywordList(s))
    IN  StrJoin(<<" ">>, Take(found, KeywordLimit))

\* C16: the search-keyword string passed to the Tender Source is determined
\* by the input text alone: two extractions of the same text give the same
\* string, which is the first min(2, n) distinct keywords in the order the
\* extraction found them, joined by one space, and which holds the industry
\* keyword when an industry was detected.
C16_SearchStringDetermined ==
    (pc = "extracted" /\ Len(user_profile.keywords.v) > 0) =>
        /\ SearchKeywords(user_profile) = SearchKeywords(profile_again)
        /\ SearchKeywords(user_profile) = SearchStringInFoundOrder(query)
        /\ user_profile.industry # None =>
              \E k \in 1..Len(Take(user_profile.keywords.v, KeywordLimit)) :
                  user_profile.keywords.v[k] = user_profile.industry
\* two extractions of one text that give different search strings
C16_TwoSearchStrings ==
    /\ pc = "extracted"
    /\ query = <<"f","i","n","t","e","c","h">>
    /\ SearchKeywords(user_profile) = <<"f","i","n","t","e","c","h"," ","t","e","c","h">>
    /\ SearchKeywords(profile_again) = <<"t","e","c","h"," ","f","i","n","t","e","c","h">>

\* C17: with either Tender Source, main_tender_agent never returns the
\* 'No tenders found for keywords: ...' text: once the keyword list is not
\* empty, get_sample_tenders and scrape_tender_portals return at least one
\* candidate whenever they return, and the run goes on to the loop over the
\* candidates.
C17_NoTendersFoundUnreachable ==
    /\ output # NoValue =>
          ~OccursAt(<<"N","o"," ","t","e","n","d","e","r","s"," ","f","o","u","n","d"," ","f","o","r"," ","k","e","y","w","o","r","d","s",":"," ">>, output.v, 1)
    /\ lpc = "done" => Len(lresult) >= 1
    /\ calls.source = 1 =>
          /\ Len(tenders) >= 1
          /\ pc \in {"enrich", "score", "summarize", "finish", "done", "raised",
                     "live_loop"}
          /\ pc = "done" => i >= 1
\* scrape_tender_portals returned although GeM gave no candidate, and
\* main_tender_agent of src/main.py went on to its loop
C17_Witness ==
    /\ pc = "live_loop"
    /\ failed = {1}
    /\ SyntheticFor(portals[1]) = {}
    /\ Len(tenders) >= 1
    /\ output = NoValue

\* the eligibility line of the block is the 'Eligible' one
MarkedEligible(block) ==
    /\ Contains(<<"\n","\n","E","L","I","G","I","B","I","L","I","T","Y",":"," ">> \o EligibleMark \o <<"\n","R","E","A","S","O","N","S",":"," ">>, block)
    /\ ~Contains(<<"N","o","t"," ","E","l","i","g","i","b","l","e","\n","R","E","A","S","O","N","S",":"," ">>, block)

C18_AdmittedNotEligible ==
    /\ Len(results) >= 1
    /\ "eligible" \notin DOMAIN eligibility.v
    /\ Contains(<<"\n","\n","E","L","I","G","I","B","I","L","I","T","Y",":"," ">> \o NotEligibleMark \o <<"\n","R","E","A","S","O","N","S",":"," ">>, results[Len(results)])
    /\ pc = "enrich" /\ i = 1

\* the block begins with the label 'TENDER n:'
Labelled(block, n) == OccursAt(<<"\n","T","E","N","D","E","R"," ">> \o IntStr(n) \o <<":"," ">>, block, 1)
\* the expander displays a segment that begins with the label 'n:'
ShowsLabel(e, n, block) ==
    /\ Labelled(block, n)
    /\ ShowsScoreOf(e, block)
    /\ \E c \in Range(tenders) : ShowsCandidate(e, c) /\ Contains(PyStr(c["source"]), block)

\* C19: the number in the label of a block is the position (1..3) of its
\* candidate in the fetched list, the labels increase strictly through the
\* report, and the blocks are numbered 1, 2, ... without a gap, so that the
\* number the UI gives to a displayed tender is the one in its label.
C19_LabelsConsecutive ==
    /\ \A k \in 1..Len(results) :
          /\ EligiblePositions[k] \in 1..ProcessLimit
          /\ Labelled(results[k], EligiblePositions[k])
          /\ k > 1 => EligiblePositions[k - 1] < EligiblePositions[k]
          /\ Labelled(results[k], k)
    /\ (shown # NoValue /\ shown.t = "expanders") =>
          \A k \in 1..Len(results) :
              \E e \in Range(shown.v) :
                  e.tender_num = k /\ ShowsLabel(e, k, results[k])
\* the only block of a report is labelled 'TENDER 2:'
C19_FirstLabelTwo ==
    /\ pc = "done"
    /\ judged = <<FALSE, TRUE, FALSE>>
    /\ Len(results) = 1
    /\ Labelled(results[1], 2)

\* the parts of a block that are written from the raw candidate c
BlockHead(n, c) ==
    <<"\n","T","E","N","D","E","R"," ">> \o IntStr(n) \o <<":"," ">> \o PyStr(c["title"])
        \o <<"\n","S","O","U","R","C","E",":"," ">> \o PyStr(c["source"])
        \o <<"\n","L","I","N","K",":"," ">> \o PyStr(c["link"])
        \o <<"\n","M","A","T","C","H"," ","S","C","O","R","E",":"," ">>
BlockDeadline(c) ==
    <<"%","\n","D","E","A","D","L","I","N","E",":"," ">> \o PyStr(DictGet(c, "deadline", PStr(<<"C","h","e","c","k"," ","P","o","r","t","a","l">>)))
        \o <<"\n","\n","E","L","I","G","I","B","I","L","I","T","Y",":"," ">>
\* the end of a block whose generated summary is summary
BlockTail(summary) ==
    <<"\n","\n","A","P","P","L","I","C","A","T","I","O","N"," ","S","U","M","M","A","R","Y",":","\n">>
        \o SubSeq(summary, 1, IF Len(summary) > 300 THEN 300 ELSE Len(summary))
        \o <<".",".",".","\n","\n","-","-","-","\n">>
EndsWith(suffix, s) ==
    /\ Len(s) >= Len(suffix)
    /\ OccursAt(suffix, s, Len(s) - Len(suffix) + 1)
\* the last candidate handled was reported: app_summary is its summary and
\* the last block is its block
JustSummarized ==
    /\ pc \in {"enrich", "finish"}
    /\ i >= 1 /\ Len(judged) = i /\ judged[i]
RawFieldsKept ==
    /\ \A k \in 1..Len(results) :
          LET c == tenders[EligiblePositions[k]]
          IN  /\ OccursAt(BlockHead(EligiblePositions[k], c), results[k], 1)
              /\ Contains(BlockDeadline(c), results[k])
    /\ JustSummarized => EndsWith(BlockTail(app_summary.v), results[Len(results)])

FieldOrPlaceholder(value, placeholder) ==
    IF value = None THEN placeholder ELSE PyStr(value)
\* the three header lines with the placeholders in the missing fields
HeaderWithPlaceholders(profile) ==
    <<"\n","T","E","N","D","E","R"," ","S","E","A","R","C","H"," ","R","E","S","U","L","T","S"," ","F","O","R",":"," ">>
        \o FieldOrPlaceholder(profile.company_name, <<"Y","o","u","r"," ","C","o","m","p","a","n","y">>)
        \o <<"\n","I","N","D","U","S","T","R","Y",":"," ">> \o FieldOrPlaceholder(profile.industry, <<"N","/","A">>)
        \o <<"\n","L","O","C","A","T","I","O","N",":"," ">> \o FieldOrPlaceholder(profile.location, <<"N","/","A">>)
        \o <<"\n","\n">>

\* C21: the header of a report names the company 'Your Company' when no
\* company name was extracted and shows 'N/A' for an industry or location
\* that was not extracted; the text 'None' stands for no missing field.
C21_HeaderPlaceholders ==
    (pc = "done" /\ Len(results) > 0) =>
        /\ OccursAt(HeaderWithPlaceholders(user_profile), output.v, 1)
        /\ ~Contains(<<"R","E","S","U","L","T","S"," ","F","O","R",":"," ","N","o","n","e","\n">>, output.v)
        /\ ~Contains(<<"\n","I","N","D","U","S","T","R","Y",":"," ","N","o","n","e","\n">>, output.v)
        /\ ~Contains(<<"\n","L","O","C","A","T","I","O","N",":"," ","N","o","n","e","\n">>, output.v)
\* a report whose header reads 'None' for the company
C21_HeaderNone ==
    /\ pc = "done" /\ Len(results) > 0
    /\ user_profile.company_name = None
    /\ OccursAt(<<"\n","T","E","N","D","E","R"," ","S","E","A","R","C","H"," ","R","E","S","U","L","T","S"," ","F","O","R",":"," ","N","o","n","e","\n">>, output.v, 1)

====
